---- MODULE Spec2Model ----
(***************************************************************************)
(* Verification model of the fks_execution admission pipeline.             *)
(*                                                                         *)
(* Part 1: security/middleware.py CircuitBreaker.  Tasks (asyncio           *)
(* coroutines) call CircuitBreaker.call(func); the only suspension points  *)
(* of a task are the lock acquisitions and the await of the guarded        *)
(* function, so every task is a small program counter machine.             *)
(*                                                                         *)
(* Part 2: security/middleware.py RateLimiter, IPWhitelist and AuditLogger, *)
(* the webhook handlers of app.py, app_ccxt.py and app_ccxt_simple.py,     *)
(* webhooks/tradingview.py TradingViewWebhook and validation/normalizer.py *)
(* DataNormalizer.  Every component has its own variables and its own      *)
(* specification; the variables of the other components stay at their      *)
(* initial values.                                                         *)
(***************************************************************************)
EXTENDS Integers, Sequences, FiniteSets, TLC

(* ------------------------------ bounds -------------------------------- *)
\* number of concurrent tasks using one breaker
NumCallers == 2
\* CircuitBreakerConfig values used by the model (defaults are 5 / 60 / 2)
failure_threshold == 2
timeout_seconds == 2
success_threshold == 2
\* cap on _failure_count, which the code lets grow without limit
MaxFailureCount == 3
\* number of tasks that are active in the liveness specification
NumLiveCallers == 1

Callers == 1..NumCallers
LiveCallers == 1..NumLiveCallers

\* RateLimitConfig values used by the model (defaults are 100 / 60 / 10)
max_requests == 2
window_seconds == 2
\* largest burst_allowance a rate limiter is constructed with
MaxBurst == 1
\* number of identifiers (client addresses) seen by the rate limiter
NumIds == 2
\* last reading of time.time() in the rate limiter specification: late
\* enough for the requests of time 0 to leave the window
MaxNow == window_seconds + 1

Ids == 1..NumIds

(* ---------------------------- CircuitState ---------------------------- *)
CLOSED == "closed"
OPEN == "open"
HALF_OPEN == "half_open"
CircuitState == {CLOSED, OPEN, HALF_OPEN}

\* _last_failure_time = None
NoTime == -1
\* asyncio.Lock not held
NoOwner == 0

VARIABLES
    state,            \* self._state
    failure_count,    \* self._failure_count
    success_count,    \* self._success_count
    since_failure,    \* time.time() - self._last_failure_time, NoTime when
                      \* _last_failure_time is None; the code only compares
                      \* it with timeout_seconds, so it stops growing
                      \* once it is past timeout_seconds
    lock,             \* owner of self._lock, NoOwner when free
    pc,               \* per task: where it is inside call()/reset()
    ran,              \* per task: the guarded function was started
    result,           \* per task: how its latest call() ended
    recorded,         \* per task: outcomes recorded for its latest call()
    admitted_in,      \* per task: breaker state when it was admitted
    notified,         \* on_state_change invocations made by the last step
    observed,         \* new_state of the observer's latest notification
    metrics,          \* circuit_breaker_state (the state it shows) and the
                      \* increments of circuit_breaker_transitions made by
                      \* the last step
    streak,           \* recorded failures since the last recorded success
    trial_successes,  \* successes recorded since HALF_OPEN was entered
    last_op,          \* the operation that produced the current state
    \* ---- RateLimiter (security/middleware.py)
    burst_allowance,  \* self.config.burst_allowance
    rl_requests,      \* self._requests: identifier -> deque of timestamps
    rl_now,           \* time.time()
    rl_admitted,      \* per identifier: timestamps of every admitted check
                      \* since the identifier was last reset
    rl_last,          \* the rate limiter operation just executed
    \* ---- IPWhitelist (security/middleware.py)
    allowed_ips,      \* self.allowed_ips: none (None) or the set ips
    ip_last,          \* the whitelist operation just executed
    \* ---- webhook endpoint (app.py, app_ccxt.py, app_ccxt_simple.py)
    p_app,            \* the application that serves the endpoint
    p_buckets,        \* rate_limiter.buckets: timestamps per client
    p_now,            \* time.time()
    p_breaker,        \* circuit_breaker: state, failures, last_failure_time
    p_last,           \* the request just handled
    \* ---- TradingViewWebhook (webhooks/tradingview.py)
    webhook_secret,   \* self.webhook_secret
    require_signature, \* self.require_signature
    signature_failures, \* webhook_signature_failures counter
    wh_last,          \* the handler call just executed
    \* ---- AuditLogger (security/middleware.py)
    al_entries,       \* self._entries, a deque(maxlen=max_entries)
    al_logged,        \* every entry ever logged, in the order appended
    al_last,          \* the logger operation just executed
    \* ---- DataNormalizer (validation/normalizer.py)
    n_config,         \* precisions and quantity limits of the normalizer
    n_last,           \* the normalizer call just executed
    \* ---- TradingViewWebhook.validate_payload (webhooks/tradingview.py)
    vp_config,        \* max_quantity, symbol_whitelist, max_order_value
    vp_last,          \* the validation just executed
    \* ---- PositionSizer (validation/normalizer.py)
    ps_config,        \* account_balance, max_risk_per_trade, max_position_size
    ps_last           \* the sizing call just executed

cb_vars == <<state, failure_count, success_count, since_failure, lock, pc,
             ran, result, recorded, admitted_in, notified, observed, metrics,
             streak,
             trial_successes, last_op>>
rl_vars == <<burst_allowance, rl_requests, rl_now, rl_admitted, rl_last>>

ip_vars == <<allowed_ips, ip_last>>

p_vars == <<p_app, p_buckets, p_now, p_breaker, p_last>>

wh_vars == <<webhook_secret, require_signature, signature_failures, wh_last>>

al_vars == <<al_entries, al_logged, al_last>>

n_vars == <<n_config, n_last>>

vp_vars == <<vp_config, vp_last>>

ps_vars == <<ps_config, ps_last>>

vars == <<cb_vars, rl_vars, ip_vars, p_vars, wh_vars, al_vars, n_vars, vp_vars, ps_vars>>

\* what the operations of one component leave alone
cb_outside == <<rl_vars, ip_vars, p_vars, wh_vars, al_vars, n_vars, vp_vars, ps_vars>>
rl_outside == <<cb_vars, ip_vars, p_vars, wh_vars, al_vars, n_vars, vp_vars, ps_vars>>
ip_outside == <<cb_vars, rl_vars, p_vars, wh_vars, al_vars, n_vars, vp_vars, ps_vars>>
p_outside == <<cb_vars, rl_vars, ip_vars, wh_vars, al_vars, n_vars, vp_vars, ps_vars>>
wh_outside == <<cb_vars, rl_vars, ip_vars, p_vars, al_vars, n_vars, vp_vars, ps_vars>>
al_outside == <<cb_vars, rl_vars, ip_vars, p_vars, wh_vars, n_vars, vp_vars, ps_vars>>
n_outside == <<cb_vars, rl_vars, ip_vars, p_vars, wh_vars, al_vars, vp_vars, ps_vars>>
vp_outside == <<cb_vars, rl_vars, ip_vars, p_vars, wh_vars, al_vars, n_vars, ps_vars>>
ps_outside == <<cb_vars, rl_vars, ip_vars, p_vars, wh_vars, al_vars, n_vars, vp_vars>>

ghost_counts == <<streak, trial_successes>>
call_info == <<ran, result, recorded, admitted_in>>
breaker_counts == <<failure_count, success_count, since_failure>>

\* tasks whose failure is still to be recorded
RaisedPcs == {"raised", "failure_locked"}

Op(name, c) ==
    [op |-> name, who |-> c, old_state |-> state,
     old_failures |-> failure_count, old_successes |-> success_count,
     old_since |-> since_failure]

(* --------------------------- CircuitBreaker --------------------------- *)
CBInit ==
    /\ state = CLOSED
    /\ failure_count = 0
    /\ success_count = 0
    /\ since_failure = NoTime
    /\ lock = NoOwner
    /\ pc = [c \in Callers |-> "idle"]
    /\ ran = [c \in Callers |-> FALSE]
    /\ result = [c \in Callers |-> "none"]
    /\ recorded = [c \in Callers |-> <<>>]
    /\ admitted_in = [c \in Callers |-> "none"]
    /\ notified = <<>>
    /\ observed = CLOSED
    /\ metrics = [state |-> CLOSED, transitions |-> <<>>]
    /\ streak = 0
    /\ trial_successes = 0
    /\ last_op = [op |-> "init", who |-> 0, old_state |-> CLOSED,
                  old_failures |-> 0, old_successes |-> 0,
                  old_since |-> NoTime]

\* RateLimiter.__init__: no identifier has a bucket yet
RLStart ==
    /\ rl_requests = [i \in Ids |-> <<>>]
    /\ rl_now = 0
    /\ rl_admitted = [i \in Ids |-> <<>>]
    /\ rl_last = [op |-> "init", id |-> 0, allowed |-> FALSE,
                  old |-> [i \in Ids |-> <<>>], count |-> 0]

\* the rate limiter while another component is examined
RLFrozen ==
    /\ burst_allowance = 0
    /\ RLStart

\* IPWhitelist(None): self.allowed_ips = None
IPFrozen ==
    /\ allowed_ips = [none |-> TRUE, ips |-> {}]
    /\ ip_last = [op |-> "init", ip |-> <<>>, allowed |-> FALSE]

\* the endpoint's module-level state before the first request
PipeStart ==
    /\ p_buckets = [c \in {"trusted", "stranger"} |-> <<>>]
    /\ p_now = 0
    /\ p_breaker = [state |-> CLOSED, failures |-> 0, last_failure_time |-> 0]
    /\ p_last = [client |-> "none", body |-> "", gates |-> <<>>, status |-> 0,
                 old_buckets |-> p_buckets, old_breaker |-> p_breaker]

PipeFrozen ==
    /\ p_app = "app_ccxt_simple"
    /\ PipeStart

\* TradingViewWebhook(plugin) before the first call
WHStart ==
    /\ signature_failures = 0
    /\ wh_last = [op |-> "init", payload |-> "", signature |-> <<"none", "", "">>,
                  outcome |-> "", counted |-> 0, forwarded |-> FALSE,
                  backend |-> "", calls |-> 0, validation |-> "",
                  success |-> FALSE, order |-> <<>>]

WHFrozen ==
    /\ webhook_secret = "none"
    /\ require_signature = FALSE
    /\ WHStart

\* AuditLogger() before the first log call
ALFrozen ==
    /\ al_entries = <<>>
    /\ al_logged = <<>>
    /\ al_last = [op |-> "init", identifier |-> 0, count |-> 0,
                  returned |-> <<>>]

\* DataNormalizer(): the state before the first call
NormStart ==
    n_last = [op |-> "init", input |-> <<>>,
              result |-> [ok |-> FALSE, value |-> <<>>, error |-> ""]]

NormFrozen ==
    /\ n_config = [price_precision |-> 1, quantity_precision |-> 1,
                   min_quantity |-> 1, max_quantity |-> 1]
    /\ NormStart

\* TradingViewWebhook(plugin) before the first validation
VPStart ==
    vp_last = [op |-> "init", data |-> <<>>, result |-> ""]

\* TradingViewWebhook(plugin): no whitelist, no quantity or value ceiling
VPFrozen ==
    /\ vp_config = [symbol_whitelist |-> FALSE, max_quantity |-> 0,
                    max_order_value |-> 0]
    /\ VPStart

\* PositionSizer(10000) before the first call
PSStart ==
    ps_last = [op |-> "init", input |-> <<>>,
               result |-> [ok |-> FALSE, value |-> <<>>, error |-> ""],
               forwarded |-> FALSE]

PSFrozen ==
    /\ ps_config = [account_balance |-> 10000, max_risk_per_trade |-> 1,
                    max_position_size |-> 10]
    /\ PSStart

\* the components added after the webhook handler, untouched
MoreFrozen == ALFrozen /\ NormFrozen /\ VPFrozen /\ PSFrozen

Init ==
    /\ CBInit
    /\ RLFrozen
    /\ IPFrozen
    /\ PipeFrozen
    /\ WHFrozen
    /\ MoreFrozen

\* a timeout test that is off by one: elapsed > timeout_seconds
TimeoutElapsedStrict ==
    /\ since_failure # NoTime
    /\ since_failure > timeout_seconds

\* _check_state: elapsed >= self.config.timeout_seconds
TimeoutElapsed ==
    /\ since_failure # NoTime
    /\ since_failure >= timeout_seconds

\* _record_failure: self._failure_count >= self.config.failure_threshold
FailureThresholdReached(n) == n >= failure_threshold

\* a success test that is off by one: _success_count > success_threshold
SuccessThresholdExceeded(n) == n > success_threshold

\* _record_success: self._success_count >= self.config.success_threshold
SuccessThresholdReached(n) == n >= success_threshold

\* _transition_state(new_state): set the state, then call the observer once
transition_state(new_state) ==
    /\ state' = new_state
    /\ metrics' = [state |-> new_state,
                   transitions |-> << <<state, new_state>> >>]
    /\ notified' = << <<state, new_state>> >>
    /\ observed' = new_state

no_transition ==
    /\ state' = state
    /\ metrics' = [metrics EXCEPT !.transitions = <<>>]
    /\ notified' = <<>>
    /\ observed' = observed

\* a _check_state that tests for HALF_OPEN where the code tests for OPEN
check_state_wrong_state ==
    IF state = HALF_OPEN /\ TimeoutElapsed
       THEN /\ transition_state(HALF_OPEN)
            /\ trial_successes' = 0
       ELSE /\ no_transition
            /\ UNCHANGED trial_successes

\* _check_state: OPEN becomes HALF_OPEN once the timeout has elapsed
check_state ==
    IF state = OPEN /\ TimeoutElapsed
       THEN /\ transition_state(HALF_OPEN)
            /\ trial_successes' = 0
       ELSE /\ no_transition
            /\ UNCHANGED trial_successes

\* a call() that runs the guarded function inside its "async with" block
call_keeps_lock(c) == lock' = IF state' = OPEN THEN NoOwner ELSE c

\* end of the "async with self._lock" block of call(): the lock is released
\* on both ways out, the raise and the fall-through to the try block
call_release(c) == lock' = NoOwner

\* a HALF_OPEN failure that forgets to reset _success_count
record_failure_half_open_keep ==
    /\ transition_state(OPEN)
    /\ UNCHANGED success_count

\* _record_failure, HALF_OPEN branch
record_failure_half_open ==
    /\ transition_state(OPEN)
    /\ success_count' = 0

\* a reset() that calls the observer whatever the old state was
reset_notify_always ==
    /\ metrics' = [metrics EXCEPT !.transitions = <<>>]
    /\ notified' = << <<state, CLOSED>> >>
    /\ observed' = CLOSED

\* reset(): the observer is called only if the old state was not CLOSED;
\* neither metric is updated
reset_notify ==
    /\ metrics' = [metrics EXCEPT !.transitions = <<>>]
    /\ IF state # CLOSED
          THEN /\ notified' = << <<state, CLOSED>> >>
               /\ observed' = CLOSED
          ELSE /\ notified' = <<>>
               /\ observed' = observed

\* async with self._lock (entry of call)
Call_Acquire(c) ==
    /\ pc[c] = "idle"
    /\ lock = NoOwner
    /\ lock' = c
    /\ pc' = [pc EXCEPT ![c] = "call_locked"]
    /\ ran' = [ran EXCEPT ![c] = FALSE]
    /\ result' = [result EXCEPT ![c] = "none"]
    /\ recorded' = [recorded EXCEPT ![c] = <<>>]
    /\ admitted_in' = [admitted_in EXCEPT ![c] = "none"]
    /\ last_op' = Op("call_acquire", c)
    /\ UNCHANGED cb_outside
    /\ no_transition
    /\ UNCHANGED <<failure_count, success_count, since_failure, ghost_counts>>

\* body of the critical section of call: _check_state, then reject if OPEN
Call(c) ==
    /\ pc[c] = "call_locked"
    /\ lock = c
    /\ check_state
    /\ IF state' = OPEN
          THEN /\ pc' = [pc EXCEPT ![c] = "idle"]
               /\ result' = [result EXCEPT ![c] = "rejected"]
               /\ UNCHANGED <<ran, admitted_in>>
          ELSE /\ pc' = [pc EXCEPT ![c] = "running"]
               /\ ran' = [ran EXCEPT ![c] = TRUE]
               /\ admitted_in' = [admitted_in EXCEPT ![c] = state']
               /\ UNCHANGED result
    /\ call_release(c)
    /\ last_op' = Op("call", c)
    /\ UNCHANGED cb_outside
    /\ UNCHANGED <<failure_count, success_count, since_failure, recorded,
                   streak>>

\* the guarded function returns (await func(...) completes)
FuncReturn(c) ==
    /\ pc[c] = "running"
    /\ pc' = [pc EXCEPT ![c] = "returned"]
    /\ last_op' = Op("func_return", c)
    /\ UNCHANGED cb_outside
    /\ no_transition
    /\ UNCHANGED <<breaker_counts, lock, call_info, ghost_counts>>

\* the guarded function raises an Exception (asyncio.TimeoutError included)
FuncRaise(c) ==
    /\ pc[c] = "running"
    /\ failure_count + Cardinality({d \in Callers : pc[d] \in RaisedPcs})
          < MaxFailureCount
    /\ pc' = [pc EXCEPT ![c] = "raised"]
    /\ last_op' = Op("func_raise", c)
    /\ UNCHANGED cb_outside
    /\ no_transition
    /\ UNCHANGED <<breaker_counts, lock, call_info, ghost_counts>>

\* the task is cancelled while awaiting the guarded function (also what
\* asyncio.wait_for around call() does on timeout): CancelledError is a
\* BaseException, so "except Exception" does not catch it
FuncCancel(c) ==
    /\ pc[c] = "running"
    /\ pc' = [pc EXCEPT ![c] = "idle"]
    /\ result' = [result EXCEPT ![c] = "cancelled"]
    /\ last_op' = Op("func_cancel", c)
    /\ UNCHANGED cb_outside
    /\ no_transition
    /\ UNCHANGED <<breaker_counts, lock, ran, recorded, admitted_in,
                   ghost_counts>>

\* async with self._lock (entry of _record_success)
RecordSuccess_Acquire(c) ==
    /\ pc[c] = "returned"
    /\ lock = NoOwner
    /\ lock' = c
    /\ pc' = [pc EXCEPT ![c] = "success_locked"]
    /\ last_op' = Op("record_success_acquire", c)
    /\ UNCHANGED cb_outside
    /\ no_transition
    /\ UNCHANGED <<breaker_counts, call_info, ghost_counts>>

\* body of _record_success, then "return result"
RecordSuccess(c) ==
    /\ pc[c] = "success_locked"
    /\ lock = c
    /\ IF state = HALF_OPEN
          THEN IF SuccessThresholdReached(success_count + 1)
                  THEN /\ transition_state(CLOSED)
                       /\ success_count' = 0
                       /\ failure_count' = 0
                  ELSE /\ no_transition
                       /\ success_count' = success_count + 1
                       /\ UNCHANGED failure_count
          ELSE /\ no_transition
               /\ UNCHANGED <<failure_count, success_count>>
    /\ trial_successes' =
          IF state = HALF_OPEN THEN trial_successes + 1 ELSE trial_successes
    /\ streak' = 0
    /\ recorded' = [recorded EXCEPT ![c] = Append(@, "success")]
    /\ result' = [result EXCEPT ![c] = "returned"]
    /\ pc' = [pc EXCEPT ![c] = "idle"]
    /\ lock' = NoOwner
    /\ last_op' = Op("record_success", c)
    /\ UNCHANGED cb_outside
    /\ UNCHANGED <<since_failure, ran, admitted_in>>

\* async with self._lock (entry of _record_failure)
RecordFailure_Acquire(c) ==
    /\ pc[c] = "raised"
    /\ lock = NoOwner
    /\ lock' = c
    /\ pc' = [pc EXCEPT ![c] = "failure_locked"]
    /\ last_op' = Op("record_failure_acquire", c)
    /\ UNCHANGED cb_outside
    /\ no_transition
    /\ UNCHANGED <<breaker_counts, call_info, ghost_counts>>

\* body of _record_failure, then "raise"
RecordFailure(c) ==
    /\ pc[c] = "failure_locked"
    /\ lock = c
    /\ failure_count' = failure_count + 1
    /\ since_failure' = 0
    /\ IF state = HALF_OPEN
          THEN record_failure_half_open
          ELSE /\ IF state = CLOSED /\ FailureThresholdReached(failure_count')
                     THEN transition_state(OPEN)
                     ELSE no_transition
               /\ UNCHANGED success_count
    /\ streak' = streak + 1
    /\ recorded' = [recorded EXCEPT ![c] = Append(@, "failure")]
    /\ result' = [result EXCEPT ![c] = "raised"]
    /\ pc' = [pc EXCEPT ![c] = "idle"]
    /\ lock' = NoOwner
    /\ last_op' = Op("record_failure", c)
    /\ UNCHANGED cb_outside
    /\ UNCHANGED <<trial_successes, ran, admitted_in>>

\* async with self._lock (entry of reset)
Reset_Acquire(c) ==
    /\ pc[c] = "idle"
    /\ lock = NoOwner
    /\ lock' = c
    /\ pc' = [pc EXCEPT ![c] = "reset_locked"]
    /\ last_op' = Op("reset_acquire", c)
    /\ UNCHANGED cb_outside
    /\ no_transition
    /\ UNCHANGED <<breaker_counts, call_info, ghost_counts>>

\* body of reset
Reset(c) ==
    /\ pc[c] = "reset_locked"
    /\ lock = c
    /\ state' = CLOSED
    /\ failure_count' = 0
    /\ success_count' = 0
    /\ since_failure' = NoTime
    /\ reset_notify
    /\ streak' = 0
    /\ pc' = [pc EXCEPT ![c] = "idle"]
    /\ lock' = NoOwner
    /\ last_op' = Op("reset", c)
    /\ UNCHANGED cb_outside
    /\ UNCHANGED <<trial_successes, call_info>>

\* one second of time.time() passes
Tick ==
    /\ since_failure # NoTime
    /\ since_failure <= timeout_seconds
    /\ since_failure' = since_failure + 1
    /\ last_op' = Op("tick", 0)
    /\ UNCHANGED cb_outside
    /\ no_transition
    /\ UNCHANGED <<failure_count, success_count, lock, pc, call_info,
                   ghost_counts>>

\* the steps of the tasks in S, and the passing of time
NextOf(S) ==
    \/ \E c \in S : Call_Acquire(c)
    \/ \E c \in S : Call(c)
    \/ \E c \in S : FuncReturn(c)
    \/ \E c \in S : FuncRaise(c)
    \/ \E c \in S : FuncCancel(c)
    \/ \E c \in S : RecordSuccess_Acquire(c)
    \/ \E c \in S : RecordSuccess(c)
    \/ \E c \in S : RecordFailure_Acquire(c)
    \/ \E c \in S : RecordFailure(c)
    \/ \E c \in S : Reset_Acquire(c)
    \/ \E c \in S : Reset(c)
    \/ Tick

Next == NextOf(Callers)

Spec == Init /\ [][Next]_vars

TypeOK ==
    /\ state \in CircuitState
    /\ failure_count \in 0..MaxFailureCount
    /\ success_count \in 0..success_threshold
    /\ since_failure \in {NoTime} \cup 0..(timeout_seconds + 1)
    /\ lock \in {NoOwner} \cup Callers
    /\ streak \in 0..MaxFailureCount

(* ------------------- fairness for the liveness claims ------------------ *)
\* The event loop runs every ready task, asyncio.Lock wakes its waiters in
\* FIFO order, time passes, callers keep calling and the guarded function
\* terminates in some way.
Fairness ==
    /\ WF_vars(Tick)
    /\ \A c \in LiveCallers :
          /\ SF_vars(Call_Acquire(c))
          /\ WF_vars(Call(c))
          /\ WF_vars(FuncReturn(c))
          /\ SF_vars(RecordSuccess_Acquire(c))
          /\ WF_vars(RecordSuccess(c))
          /\ SF_vars(RecordFailure_Acquire(c))
          /\ WF_vars(RecordFailure(c))
          /\ WF_vars(Reset(c))

LiveNext == NextOf(LiveCallers)

LiveSpec == Init /\ [][LiveNext]_vars /\ Fairness

(* ------------------------------- claims -------------------------------- *)
InFlightPcs == {"running", "returned", "raised", "success_locked",
                "failure_locked"}

\* C1: a failure recorded in CLOSED opens the breaker exactly when the number
\* of consecutive recorded failures (no recorded success in between) has
\* reached failure_threshold.
C1_OpensOnConsecutiveFailures ==
    (last_op.op = "record_failure" /\ last_op.old_state = CLOSED)
        => ((state = OPEN) <=> (streak >= failure_threshold))

\* C2: the failure count and the success count are never both nonzero.
C2_CountsNeverBothNonzero ==
    ~(failure_count > 0 /\ success_count > 0)

\* C3: at most one call admitted in HALF_OPEN is in flight (admitted, outcome
\* not yet recorded) at any time.
C3_SingleTrialInHalfOpen ==
    Cardinality({c \in Callers :
                    pc[c] \in InFlightPcs /\ admitted_in[c] = HALF_OPEN}) <= 1

\* C4: a call() that finds the breaker OPEN is rejected without running the
\* guarded function while less than timeout_seconds has elapsed since the
\* last recorded failure; otherwise it moves the breaker to HALF_OPEN and is
\* admitted.  OPEN is left for HALF_OPEN by a call() only, never by the
\* passing of time alone.
C4_OpenRejectsUntilTimeout ==
    /\ (last_op.op = "call" /\ last_op.old_state = OPEN) =>
          IF last_op.old_since = NoTime \/ last_op.old_since < timeout_seconds
             THEN /\ state = OPEN
                  /\ pc[last_op.who] = "idle"
                  /\ result[last_op.who] = "rejected"
                  /\ ~ran[last_op.who]
                  /\ recorded[last_op.who] = <<>>
             ELSE /\ state = HALF_OPEN
                  /\ pc[last_op.who] = "running"
                  /\ ran[last_op.who]
    /\ (last_op.old_state = OPEN /\ state = HALF_OPEN) => last_op.op = "call"
    /\ last_op.op = "tick" => state = last_op.old_state

C4_Witness ==
    /\ last_op.op = "call"
    /\ last_op.old_state = OPEN
    /\ last_op.old_since = timeout_seconds
    /\ state = HALF_OPEN
    /\ pc[last_op.who] = "running"

\* C5: a success recorded in HALF_OPEN closes the breaker, with both counters
\* reset to 0, exactly when it is the success_threshold-th success since
\* HALF_OPEN was entered; before that the breaker stays HALF_OPEN.
C5_HalfOpenClosesAfterSuccesses ==
    (last_op.op = "record_success" /\ last_op.old_state = HALF_OPEN) =>
        IF trial_successes >= success_threshold
           THEN /\ trial_successes = success_threshold
                /\ state = CLOSED
                /\ failure_count = 0
                /\ success_count = 0
           ELSE /\ state = HALF_OPEN
                /\ success_count = trial_successes
                /\ failure_count = last_op.old_failures

C5_Witness ==
    /\ last_op.op = "record_success"
    /\ last_op.old_state = HALF_OPEN
    /\ last_op.old_failures > 0
    /\ last_op.old_successes = success_threshold - 1
    /\ state = CLOSED
    /\ failure_count = 0
    /\ success_count = 0

\* C6: a failure recorded in HALF_OPEN opens the breaker at once, however
\* many successes were counted, and resets the success counter to 0.
C6_HalfOpenFailureOpens ==
    (last_op.op = "record_failure" /\ last_op.old_state = HALF_OPEN) =>
        /\ state = OPEN
        /\ success_count = 0
        /\ since_failure = 0

C6_Witness ==
    /\ last_op.op = "record_failure"
    /\ last_op.old_state = HALF_OPEN
    /\ last_op.old_successes > 0
    /\ state = OPEN
    /\ success_count = 0

\* a step in which a guarded call does not succeed
CallFails == \E c \in Callers : FuncRaise(c) \/ FuncCancel(c)

C8_OutcomeRecordedOnce ==
    \A c \in Callers :
        pc[c] = "idle" =>
            /\ result[c] = "returned" => recorded[c] = <<"success">>
            /\ result[c] = "raised" => recorded[c] = <<"failure">>
            /\ result[c] = "cancelled" => recorded[c] = <<"failure">>
            /\ result[c] = "rejected" => recorded[c] = <<>>

\* C9: a step changes the breaker's state if and only if it calls the
\* observer, exactly once, with (old state, new state); old and new differ,
\* and the old state of each notification is the new state of the previous
\* one (CLOSED for the first), so the observer always knows the state.
C9_TransitionsNotifiedInOrder ==
    /\ state # last_op.old_state =>
          notified = << <<last_op.old_state, state>> >>
    /\ state = last_op.old_state => notified = <<>>
    /\ observed = state
    /\ [][notified' # <<>> =>
            /\ Len(notified') = 1
            /\ notified'[1][1] = observed
            /\ notified'[1][1] # notified'[1][2]
            /\ observed' = notified'[1][2]]_vars

C9_Witness ==
    /\ last_op.op = "reset"
    /\ last_op.old_state = HALF_OPEN
    /\ notified = << <<HALF_OPEN, CLOSED>> >>
    /\ observed = CLOSED

\* C10: a task never holds the breaker's lock while its guarded function
\* executes or while it waits to record the outcome; the lock is held only
\* inside the three critical sections.
C10_LockNotHeldDuringCall ==
    /\ \A c \in Callers :
          pc[c] \in {"running", "returned", "raised"} => lock # c
    /\ lock # NoOwner =>
          pc[lock] \in {"call_locked", "success_locked", "failure_locked",
                        "reset_locked"}

\* one task awaits the backend while another has just recorded its outcome
\* and a third party could take the free lock
C10_Witness ==
    \E c, d \in Callers :
        /\ c # d
        /\ pc[c] = "running"
        /\ last_op.op = "record_failure"
        /\ last_op.who = d
        /\ admitted_in[d] = CLOSED
        /\ lock = NoOwner

\* C35: a success reported by a call that was admitted before the breaker
\* became HALF_OPEN does not count toward success_threshold: it leaves the
\* success count and the state HALF_OPEN as they were.
C35_OnlyTrialCallsCount ==
    (/\ last_op.op = "record_success"
     /\ last_op.old_state = HALF_OPEN
     /\ admitted_in[last_op.who] # HALF_OPEN) =>
        /\ state = HALF_OPEN
        /\ success_count = last_op.old_successes

\* C36: whenever no task is inside a critical section of the breaker, the
\* success count is nonzero only in HALF_OPEN, where it is smaller than
\* success_threshold, and an OPEN breaker has a last-failure time.
C36_CountsConsistentOutsideLock ==
    lock = NoOwner =>
        /\ success_count # 0 =>
              /\ state = HALF_OPEN
              /\ success_count < success_threshold
        /\ state = OPEN => since_failure # NoTime

\* a HALF_OPEN breaker with a counted success, and nobody holding the lock
C36_Witness ==
    /\ lock = NoOwner
    /\ state = HALF_OPEN
    /\ success_count > 0
    /\ since_failure # NoTime

\* C37: the telemetry reflects the breaker: the state gauge shows the
\* breaker's state, and a step that changes the state, reset() included,
\* increments the transition counter for (old, new) exactly once.
C37_TelemetryFollowsState ==
    /\ metrics.state = state
    /\ state # last_op.old_state =>
          metrics.transitions = << <<last_op.old_state, state>> >>

(* ----------------------------- RateLimiter ----------------------------- *)
RECURSIVE PruneInclusive(_, _)
\* a pruning loop that also drops a timestamp equal to window_start
PruneInclusive(requests, window_start) ==
    IF requests # <<>> /\ requests[1] <= window_start
       THEN PruneInclusive(Tail(requests), window_start)
       ELSE requests

RECURSIVE Prune(_, _)
\* while requests and requests[0] < window_start: requests.popleft()
Prune(requests, window_start) ==
    IF requests # <<>> /\ requests[1] < window_start
       THEN Prune(Tail(requests), window_start)
       ELSE requests

\* self.config.max_requests + self.config.burst_allowance
Capacity == max_requests + burst_allowance

\* allowed = len(requests) < max_requests + burst_allowance
Allowed(requests) == Len(requests) < Capacity

\* a check that records the request whether or not it was allowed
after_check_always_records(pruned, allowed, now) == Append(pruned, now)

\* if allowed: requests.append(now)
after_check(pruned, allowed, now) ==
    IF allowed THEN Append(pruned, now) ELSE pruned

\* a reset(identifier) that clears every bucket
after_reset_clears_all(identifier) == [i \in Ids |-> <<>>]

\* reset(identifier): del self._requests[identifier]
after_reset(identifier) == [rl_requests EXCEPT ![identifier] = <<>>]

\* get_stats: recent_requests = [r for r in requests if r >= window_start]
RecentRequests(requests, now) ==
    SelectSeq(requests, LAMBDA r : r >= now - window_seconds)

RLOp(name, identifier, allowed, count) ==
    [op |-> name, id |-> identifier, allowed |-> allowed,
     old |-> rl_requests, count |-> count]

\* RateLimiter(config): the burst allowance is fixed at construction
RLInit ==
    /\ burst_allowance \in 0..MaxBurst
    /\ RLStart
    /\ CBInit
    /\ IPFrozen
    /\ PipeFrozen
    /\ WHFrozen
    /\ MoreFrozen

\* check_rate_limit(identifier); the body holds the lock and never awaits
CheckRateLimit(identifier) ==
    LET pruned == Prune(rl_requests[identifier], rl_now - window_seconds)
        allowed == Allowed(pruned)
    IN  /\ rl_requests' = [rl_requests EXCEPT
                              ![identifier] = after_check(pruned, allowed, rl_now)]
        /\ rl_admitted' = [rl_admitted EXCEPT
                              ![identifier] = IF allowed THEN Append(@, rl_now)
                                                         ELSE @]
        /\ rl_last' = RLOp("check", identifier, allowed, Len(pruned))
        /\ UNCHANGED <<burst_allowance, rl_now>>
        /\ UNCHANGED rl_outside

\* get_stats(identifier)
GetStats(identifier) ==
    /\ rl_last' = RLOp("stats", identifier, FALSE,
                       Len(RecentRequests(rl_requests[identifier], rl_now)))
    /\ UNCHANGED <<burst_allowance, rl_requests, rl_now, rl_admitted>>
    /\ UNCHANGED rl_outside

\* reset(identifier)
ResetIdentifier(identifier) ==
    /\ rl_requests' = after_reset(identifier)
    /\ rl_admitted' = [rl_admitted EXCEPT ![identifier] = <<>>]
    /\ rl_last' = RLOp("reset", identifier, FALSE, 0)
    /\ UNCHANGED <<burst_allowance, rl_now>>
    /\ UNCHANGED rl_outside

\* reset(None): self._requests.clear()
ResetAll ==
    /\ rl_requests' = [i \in Ids |-> <<>>]
    /\ rl_admitted' = [i \in Ids |-> <<>>]
    /\ rl_last' = RLOp("reset_all", 0, FALSE, 0)
    /\ UNCHANGED <<burst_allowance, rl_now>>
    /\ UNCHANGED rl_outside

\* one second of time.time() passes
RLTick ==
    /\ rl_now < MaxNow
    /\ rl_now' = rl_now + 1
    /\ rl_last' = RLOp("tick", 0, FALSE, 0)
    /\ UNCHANGED <<burst_allowance, rl_requests, rl_admitted>>
    /\ UNCHANGED rl_outside

RLNext ==
    \/ \E i \in Ids : CheckRateLimit(i)
    \/ \E i \in Ids : GetStats(i)
    \/ \E i \in Ids : ResetIdentifier(i)
    \/ ResetAll
    \/ RLTick

SpecRL == RLInit /\ [][RLNext]_vars

\* number of admitted requests of a history that lie in [from, to]
CountIn(history, from, to) ==
    Cardinality({k \in DOMAIN history : from <= history[k] /\ history[k] <= to})

\* the admitted requests of the identifier before the operation in rl_last
OldAdmitted ==
    IF rl_last.op = "check" /\ rl_last.allowed
       THEN SubSeq(rl_admitted[rl_last.id], 1, Len(rl_admitted[rl_last.id]) - 1)
       ELSE rl_admitted[rl_last.id]

C12_RejectedWithinWindowAdmittedAfter ==
    (rl_last.op = "check" /\ burst_allowance = 0) =>
        LET old == rl_last.old[rl_last.id]
        IN  /\ (/\ Len(old) = max_requests
                /\ \A k \in DOMAIN old : rl_now - old[k] < window_seconds)
                   => ~rl_last.allowed
            /\ (\A k \in DOMAIN old : rl_now - old[k] >= window_seconds)
                   => rl_last.allowed

\* C13: a rejected check leaves every bucket, the identifier's own included,
\* exactly as it was: nothing pruned, nothing recorded.
C13_RejectionChangesNothing ==
    (rl_last.op = "check" /\ ~rl_last.allowed) => rl_requests = rl_last.old

C13_Witness ==
    /\ rl_last.op = "check"
    /\ ~rl_last.allowed
    /\ rl_requests[rl_last.id][1] = rl_now - window_seconds
    /\ rl_requests = rl_last.old

\* C14: reset(identifier) empties that identifier's bucket only (its stats
\* count is then 0 and its next check is admitted), reset() empties every
\* bucket, and a check or a stats query leaves the buckets, hence the
\* admission decisions, of all other identifiers unchanged.
C14_ResetAndIsolation ==
    /\ rl_last.op = "reset" =>
          /\ rl_requests[rl_last.id] = <<>>
          /\ Len(RecentRequests(rl_requests[rl_last.id], rl_now)) = 0
          /\ Allowed(Prune(rl_requests[rl_last.id], rl_now - window_seconds))
          /\ \A j \in Ids \ {rl_last.id} : rl_requests[j] = rl_last.old[j]
    /\ rl_last.op = "reset_all" => \A j \in Ids : rl_requests[j] = <<>>
    /\ rl_last.op \in {"check", "stats"} =>
          \A j \in Ids \ {rl_last.id} :
              /\ rl_requests[j] = rl_last.old[j]
              /\ Allowed(Prune(rl_requests[j], rl_now - window_seconds))
                    = Allowed(Prune(rl_last.old[j], rl_now - window_seconds))
    /\ rl_last.op = "stats" => rl_requests = rl_last.old

C14_Witness ==
    /\ rl_last.op = "reset"
    /\ Len(rl_last.old[rl_last.id]) = Capacity
    /\ \E j \in Ids \ {rl_last.id} : rl_requests[j] # <<>>

(* ----------------------------- IPWhitelist ----------------------------- *)
\* Addresses and whitelist entries are Python strings, modelled as sequences
\* of one-character strings.
Digits == {"0", "1", "2", "3", "4", "5", "6", "7", "8", "9"}

\* whitelist entries a deployment configures (app_ccxt.py lists such
\* blocks): 10.0.0.0/8, 10.0.1.0/24, 127.0.0.1, 192.168.1.0/24
Entries ==
    { <<"1","0",".","0",".","0",".","0","/","8">>,
      <<"1","0",".","0",".","1",".","0","/","2","4">>,
      <<"1","2","7",".","0",".","0",".","1">>,
      <<"1","9","2",".","1","6","8",".","1",".","0","/","2","4">> }

\* client addresses as request.client.host delivers them: 10.1.2.3,
\* 11.1.2.3, 10.0.1.5, 10.0.10.5, 127.0.0.1 and the unparseable 10.0.1
Clients ==
    { <<"1","0",".","1",".","2",".","3">>,
      <<"1","1",".","1",".","2",".","3">>,
      <<"1","0",".","0",".","1",".","5">>,
      <<"1","0",".","0",".","1","0",".","5">>,
      <<"1","2","7",".","0",".","0",".","1">>,
      <<"1","0",".","0",".","1">> }

\* "ch" in text
Contains(text, ch) == \E k \in DOMAIN text : text[k] = ch

\* text.split(ch)[0]: the part before the first ch
BeforeFirst(text, ch) ==
    IF Contains(text, ch)
       THEN SubSeq(text, 1,
                   (CHOOSE k \in DOMAIN text :
                       /\ text[k] = ch
                       /\ \A j \in 1..(k - 1) : text[j] # ch) - 1)
       ELSE text

\* text.rsplit(ch, 1)[0]: the part before the last ch
BeforeLast(text, ch) ==
    IF Contains(text, ch)
       THEN SubSeq(text, 1,
                   (CHOOSE k \in DOMAIN text :
                       /\ text[k] = ch
                       /\ \A j \in (k + 1)..Len(text) : text[j] # ch) - 1)
       ELSE text

\* text.startswith(prefix)
StartsWith(text, prefix) ==
    /\ Len(prefix) <= Len(text)
    /\ SubSeq(text, 1, Len(prefix)) = prefix

\* the CIDR branch of is_allowed: a string prefix test against the network
\* address without its last octet
PrefixMatch(ip, allowed_ip) ==
    /\ Contains(allowed_ip, "/")
    /\ StartsWith(ip, BeforeLast(BeforeFirst(allowed_ip, "/"), "."))

\* is_allowed(ip)
IsAllowed(ip) ==
    IF allowed_ips.none
       THEN TRUE
       ELSE \/ ip \in allowed_ips.ips
            \/ \E allowed_ip \in allowed_ips.ips : PrefixMatch(ip, allowed_ip)

\* IPWhitelist(allowed_ips): set(allowed_ips) if allowed_ips else None
IPInit ==
    /\ \E configured \in SUBSET Entries :
          allowed_ips = [none |-> configured = {}, ips |-> configured]
    /\ ip_last = [op |-> "init", ip |-> <<>>, allowed |-> FALSE]
    /\ CBInit
    /\ RLFrozen
    /\ PipeFrozen
    /\ WHFrozen
    /\ MoreFrozen

\* a request's address is checked
IsAllowedCall(ip) ==
    /\ ip_last' = [op |-> "is_allowed", ip |-> ip, allowed |-> IsAllowed(ip)]
    /\ UNCHANGED allowed_ips
    /\ UNCHANGED ip_outside

\* add_ip(ip)
AddIp(ip) ==
    /\ allowed_ips' = [none |-> FALSE, ips |-> allowed_ips.ips \cup {ip}]
    /\ ip_last' = [op |-> "add_ip", ip |-> ip, allowed |-> FALSE]
    /\ UNCHANGED ip_outside

\* remove_ip(ip)
RemoveIp(ip) ==
    /\ allowed_ips' = [allowed_ips EXCEPT !.ips = @ \ {ip}]
    /\ ip_last' = [op |-> "remove_ip", ip |-> ip, allowed |-> FALSE]
    /\ UNCHANGED ip_outside

IPNext ==
    \/ \E ip \in Clients : IsAllowedCall(ip)
    \/ \E ip \in Entries : AddIp(ip)
    \/ \E ip \in Entries : RemoveIp(ip)

SpecIP == IPInit /\ [][IPNext]_vars

(* what the claims mean by "parseable" and "inside a CIDR block" *)
RECURSIVE SplitOn(_, _)
\* the parts of text between the separators ch
SplitOn(text, ch) ==
    IF Contains(text, ch)
       THEN <<BeforeFirst(text, ch)>>
               \o SplitOn(SubSeq(text, Len(BeforeFirst(text, ch)) + 2,
                                 Len(text)), ch)
       ELSE <<text>>

DigitValue(c) ==
    CASE c = "0" -> 0 [] c = "1" -> 1 [] c = "2" -> 2 [] c = "3" -> 3
      [] c = "4" -> 4 [] c = "5" -> 5 [] c = "6" -> 6 [] c = "7" -> 7
      [] c = "8" -> 8 [] c = "9" -> 9

RECURSIVE Number(_)
\* the value of a string of decimal digits
Number(text) ==
    IF text = <<>> THEN 0
    ELSE 10 * Number(SubSeq(text, 1, Len(text) - 1))
            + DigitValue(text[Len(text)])

IsNumber(text, max) ==
    /\ Len(text) \in 1..3
    /\ \A k \in DOMAIN text : text[k] \in Digits
    /\ Number(text) <= max

\* text is a dotted-quad IPv4 address
Parseable(text) ==
    /\ Len(SplitOn(text, ".")) = 4
    /\ \A k \in 1..4 : IsNumber(SplitOn(text, ".")[k], 255)

Octets(text) == [k \in 1..4 |-> Number(SplitOn(text, ".")[k])]

RECURSIVE Pow2(_)
Pow2(n) == IF n = 0 THEN 1 ELSE 2 * Pow2(n - 1)

\* the first bits bits of the addresses a and n agree
SamePrefix(a, n, bits) ==
    /\ \A k \in 1..(bits \div 8) : a[k] = n[k]
    /\ bits % 8 # 0 =>
          a[(bits \div 8) + 1] \div Pow2(8 - (bits % 8))
             = n[(bits \div 8) + 1] \div Pow2(8 - (bits % 8))

\* ip equals the entry, or the entry is a CIDR block that contains ip
Matches(ip, entry) ==
    IF Contains(entry, "/")
       THEN LET net == BeforeFirst(entry, "/")
                len == SubSeq(entry, Len(net) + 2, Len(entry))
            IN  /\ Parseable(net)
                /\ IsNumber(len, 32)
                /\ SamePrefix(Octets(ip), Octets(net), Number(len))
       ELSE Parseable(entry) /\ Octets(ip) = Octets(entry)

\* C15: a whitelist that holds no entries admits every address, whether it
\* was constructed empty or emptied by remove_ip.
C15_EmptyWhitelistAllowsAll ==
    (ip_last.op = "is_allowed" /\ allowed_ips.ips = {}) => ip_last.allowed

\* C16: with a non-empty whitelist an address is admitted if and only if it
\* is parseable and equals an entry or lies inside a configured CIDR block.
C16_CidrContainment ==
    (ip_last.op = "is_allowed" /\ allowed_ips.ips # {}) =>
        (ip_last.allowed <=>
            /\ Parseable(ip_last.ip)
            /\ \E entry \in allowed_ips.ips : Matches(ip_last.ip, entry))

(* ---------------------------- DataNormalizer --------------------------- *)
\* Strings are sequences of one-character strings.  Numbers are integers
\* that count units of 10^-MaxPrecision, so a value rounded to MaxPrecision
\* decimal places is itself; a float input is a number, NaN, an infinity,
\* None, or text that float() rejects.
MaxPrecision == 2
MaxSymbolLen == 2

RECURSIVE Pow10(_)
Pow10(n) == IF n = 0 THEN 1 ELSE 10 * Pow10(n - 1)

\* str.upper() on the letters the symbols use
UpperChar(c) ==
    CASE c = "b" -> "B" [] c = "t" -> "T" [] c = "c" -> "C" [] c = "u" -> "U"
      [] c = "s" -> "S" [] c = "d" -> "D" [] c = "e" -> "E" [] c = "h" -> "H"
      [] c = "n" -> "N" [] OTHER -> c

Upper(text) == [k \in 1..Len(text) |-> UpperChar(text[k])]

\* symbol.upper() with the separators left in
CleanKeepsSeparators(symbol) == Upper(symbol)

\* symbol.upper().replace("-", "").replace("_", "")
Clean(symbol) == SelectSeq(Upper(symbol), LAMBDA c : c \notin {"-", "_"})

\* text.endswith(suffix)
EndsWith(text, suffix) ==
    /\ Len(suffix) <= Len(text)
    /\ SubSeq(text, Len(text) - Len(suffix) + 1, Len(text)) = suffix

\* known quote currencies, in the order the code tries them
quote_currencies ==
    << <<"U","S","D","T">>,
       <<"B","U","S","D">>,
       <<"U","S","D","C">>,
       <<"U","S","D">>,
       <<"B","T","C">>,
       <<"E","T","H">>,
       <<"B","N","B">> >>

Failure(error) == [ok |-> FALSE, value |-> <<>>, error |-> error]
Value(value) == [ok |-> TRUE, value |-> value, error |-> ""]

RECURSIVE SplitQuote(_, _)
\* the loop over quote_currencies, from the k-th currency on
SplitQuote(clean, k) ==
    IF k > Len(quote_currencies) THEN Failure("ValidationError")
    ELSE IF /\ EndsWith(clean, quote_currencies[k])
            /\ Len(clean) > Len(quote_currencies[k])
       THEN Value(SubSeq(clean, 1, Len(clean) - Len(quote_currencies[k]))
                     \o <<"/">> \o quote_currencies[k])
       ELSE SplitQuote(clean, k + 1)

\* normalize_symbol(symbol)
normalize_symbol(symbol) ==
    IF symbol = <<>> THEN Failure("ValidationError")
    ELSE IF Contains(symbol, "/") THEN Value(Upper(symbol))
    ELSE SplitQuote(Clean(symbol), 1)

\* clean_numeric(value, field_name)
clean_numeric(value) ==
    IF value.kind = "number" THEN Value(value.v)
    ELSE Failure("ValidationError")

\* round_to_precision without ROUND_DOWN: rounds half up
round_half_up(value, precision) ==
    IF precision < 0 THEN Failure("ValidationError")
    ELSE IF precision >= MaxPrecision THEN Value(value)
    ELSE Value(((value + Pow10(MaxPrecision - precision) \div 2)
                   \div Pow10(MaxPrecision - precision))
                  * Pow10(MaxPrecision - precision))

\* round_to_precision(value, precision): Decimal.quantize with ROUND_DOWN
round_to_precision(value, precision) ==
    IF precision < 0 THEN Failure("ValidationError")
    ELSE IF precision >= MaxPrecision THEN Value(value)
    ELSE Value((value \div Pow10(MaxPrecision - precision))
                  * Pow10(MaxPrecision - precision))

\* the precision of Python's default decimal context, in digits
getcontext_prec == 28

RECURSIVE adjusted(_)
\* the number of decimal digits of a positive integer
adjusted(n) == IF n < 10 THEN 1 ELSE 1 + adjusted(n \div 10)

\* Decimal(str(value)).quantize(Decimal(quantize_str), rounding=ROUND_DOWN)
\* for a positive value written coefficient * 10^exponent, where the
\* fixed-point numbers above cannot go: a value that needs more than
\* getcontext_prec digits at the new exponent signals InvalidOperation, a
\* value with no digit below 10^-precision keeps its value, and the digits
\* below 10^-precision are cut off otherwise
quantize(decimal, precision) ==
    IF precision < 0 THEN Failure("ValidationError")
    ELSE IF decimal.exponent >= 0 - precision
       THEN IF adjusted(decimal.coefficient) + decimal.exponent + precision
                  > getcontext_prec
               THEN Failure("InvalidOperation")
               ELSE Value(decimal)
    ELSE Value([coefficient |-> decimal.coefficient
                                  \div Pow10(0 - precision - decimal.exponent),
                exponent |-> 0 - precision])

Abs(x) == IF x < 0 THEN 0 - x ELSE x

\* normalize_price(price, market_price); max_price_deviation is 10%
normalize_price(price, market_price) ==
    LET cleaned == clean_numeric(price)
        market == clean_numeric(market_price)
    IN  IF ~cleaned.ok THEN cleaned
        ELSE IF cleaned.value <= 0 THEN Failure("ValidationError")
        ELSE IF market_price.kind = "none"
           THEN round_to_precision(cleaned.value, n_config.price_precision)
        ELSE IF ~market.ok THEN market
        ELSE IF market.value = 0 THEN Failure("ZeroDivisionError")
        ELSE IF /\ market.value > 0
                /\ Abs(cleaned.value - market.value) * 10 > market.value
           THEN Failure("ValidationError")
        ELSE round_to_precision(cleaned.value, n_config.price_precision)

\* normalize_quantity(quantity)
normalize_quantity(quantity) ==
    LET cleaned == clean_numeric(quantity)
    IN  IF ~cleaned.ok THEN cleaned
        ELSE IF cleaned.value <= 0 THEN Failure("ValidationError")
        ELSE IF cleaned.value < n_config.min_quantity
           THEN Failure("ValidationError")
        ELSE IF cleaned.value > n_config.max_quantity
           THEN Failure("ValidationError")
        ELSE round_to_precision(cleaned.value, n_config.quantity_precision)

\* normalize_order(order, market_price) for an order with symbol, quantity
\* and an optional price
normalize_order(order) ==
    LET symbol == normalize_symbol(order.symbol)
        quantity == normalize_quantity(order.quantity)
        price == normalize_price(order.price, [kind |-> "none", v |-> 0])
    IN  IF ~symbol.ok THEN symbol
        ELSE IF ~quantity.ok THEN quantity
        ELSE IF order.price.kind = "none"
           THEN Value([symbol |-> symbol.value, quantity |-> quantity.value])
        ELSE IF ~price.ok THEN price
        ELSE Value([symbol |-> symbol.value, quantity |-> quantity.value,
                    price |-> price.value])

\* symbols the normalizer is given
RECURSIVE Strings(_, _)
\* every string over the alphabet of length at most n
Strings(alphabet, n) ==
    IF n = 0 THEN {<<>>}
    ELSE Strings(alphabet, n - 1)
            \cup {Append(t, c) : t \in Strings(alphabet, n - 1), c \in alphabet}

Symbols ==
    { 
      <<"B","T","C","U","S","D","T">>,
      <<"B","T","C","-","U","S","D","T">>,
      <<"b","t","c","_","u","s","d","t">>,
      <<"B","T","C","/","U","S","D","T">>,
      <<"b","t","c","/","u","s","d","t">>,
      <<"B","T","C","U","S","D">>,
      <<"E","T","H","B","T","C">>,
      <<"U","S","D","T">>,
      <<"B","U","S","D">>,
      <<"B","T","C">>,
      <<"B","N","B","B","U","S","D">>,
      <<"B","T","C","-">>,
      <<"D","E","B","T">>,
      <<"S","H","I","B">>,
      <<"e","t","h","-","u","s","d","c">>,
      <<"/">> }
        \cup Strings({"b", "T", "/", "-", "_"}, MaxSymbolLen)

\* numeric arguments: numbers in units of 10^-MaxPrecision, and the values
\* float() cannot turn into a finite number
Numerics ==
    {[kind |-> "number", v |-> v] :
        v \in {-5, 0, 1, 15, 105, 100 * Pow10(MaxPrecision),
               2000 * Pow10(MaxPrecision)}}
        \cup {[kind |-> k, v |-> 0] : k \in {"none", "nan", "inf", "text"}}

\* positive floats as coefficient * 10^exponent, from thousandths to 10^27
Decimals ==
    [coefficient : {1, 15, 105, 2675},
     exponent : {-3, -2, -1, 0, 19, 20, 27}]

Orders ==
    [symbol : {<<"B","T","C","U","S","D","T">>, <<"F","O","O">>},
     quantity : {n \in Numerics : n.kind \in {"number", "nan"}},
     price : {n \in Numerics : n.kind \in {"number", "none"} /\ n.v < 200}]

\* DataNormalizer(min_quantity, max_quantity, price_precision,
\* quantity_precision)
NormInit ==
    /\ n_config \in [price_precision : 0..MaxPrecision,
                     quantity_precision : 0..MaxPrecision,
                     min_quantity : {1, 100},
                     max_quantity : {1000 * Pow10(MaxPrecision)}]
    /\ NormStart
    /\ CBInit
    /\ RLFrozen
    /\ IPFrozen
    /\ PipeFrozen
    /\ WHFrozen
    /\ ALFrozen
    /\ VPFrozen
    /\ PSFrozen

\* the record of a call: its name, its argument and what it returned
Called(name, input, outcome) ==
    [op |-> name, input |-> input, result |-> outcome]

NormalizeSymbol(symbol) ==
    /\ n_last' = Called("normalize_symbol", symbol, normalize_symbol(symbol))
    /\ UNCHANGED n_config
    /\ UNCHANGED n_outside

NormalizePrice(price, market_price) ==
    /\ n_last' = Called("normalize_price", <<price, market_price>>,
                        normalize_price(price, market_price))
    /\ UNCHANGED n_config
    /\ UNCHANGED n_outside

NormalizeQuantity(quantity) ==
    /\ n_last' = Called("normalize_quantity", quantity,
                        normalize_quantity(quantity))
    /\ UNCHANGED n_config
    /\ UNCHANGED n_outside

NormalizeOrder(order) ==
    /\ n_last' = Called("normalize_order", order, normalize_order(order))
    /\ UNCHANGED n_config
    /\ UNCHANGED n_outside

\* round_to_precision(value, precision) for a float of any magnitude
RoundToPrecision(decimal, precision) ==
    /\ n_last' = Called("round_to_precision", <<decimal, precision>>,
                        quantize(decimal, precision))
    /\ UNCHANGED n_config
    /\ UNCHANGED n_outside

NormNext ==
    \/ \E decimal \in Decimals, precision \in {0, 1, 2, 8} :
          RoundToPrecision(decimal, precision)
    \/ \E symbol \in Symbols : NormalizeSymbol(symbol)
    \/ \E price \in Numerics, market_price \in Numerics :
          NormalizePrice(price, market_price)
    \/ \E quantity \in Numerics : NormalizeQuantity(quantity)
    \/ \E order \in Orders : NormalizeOrder(order)

SpecNorm == NormInit /\ [][NormNext]_vars

\* the spellings of one pair that the documentation lists
Spellings ==
    {<<"B","T","C","U","S","D","T">>, <<"B","T","C","-","U","S","D","T">>, <<"b","t","c","_","u","s","d","t">>, <<"B","T","C","/","U","S","D","T">>}

\* the symbol, without separators and in upper case, ends in a quote
\* currency
EndsInQuote(symbol) ==
    \E k \in DOMAIN quote_currencies :
        EndsWith(SelectSeq(Upper(symbol), LAMBDA c : c \notin {"-", "_"}),
                 quote_currencies[k])

\* C29: normalize_symbol is idempotent on what it accepts, the spellings
\* BTCUSDT, BTC-USDT, btc_usdt and BTC/USDT all give BTC/USDT, and a symbol
\* without a slash that ends in no known quote currency is an error.
C29_SymbolNormalization ==
    n_last.op = "normalize_symbol" =>
        /\ n_last.result.ok =>
              normalize_symbol(n_last.result.value) = n_last.result
        /\ n_last.input \in Spellings =>
              n_last.result = Value(<<"B","T","C","/","U","S","D","T">>)
        /\ (~Contains(n_last.input, "/") /\ ~EndsInQuote(n_last.input)) =>
              /\ ~n_last.result.ok
              /\ n_last.result.error = "ValidationError"

\* a lower-case spelling with a separator was brought to BASE/QUOTE
C29_Witness ==
    /\ n_last.op = "normalize_symbol"
    /\ n_last.input = <<"b","t","c","_","u","s","d","t">>
    /\ n_last.result = Value(<<"B","T","C","/","U","S","D","T">>)

\* C30: every quantity and price that normalize_quantity, normalize_price
\* and normalize_order return is finite and strictly positive.
C30_NormalizedValuesPositive ==
    n_last.result.ok =>
        /\ n_last.op \in {"normalize_price", "normalize_quantity"} =>
              n_last.result.value > 0
        /\ n_last.op = "normalize_order" =>
              /\ n_last.result.value.quantity > 0
              /\ "price" \in DOMAIN n_last.result.value =>
                    n_last.result.value.price > 0

\* C31: for a positive value v and a precision p round_to_precision returns
\* the largest multiple r of 10^-p with r <= v, so that 0 <= v - r < 10^-p,
\* and rounding r again returns r.
C31_RoundsDownToMultiple ==
    n_last.op = "round_to_precision" =>
        LET v == n_last.input[1]
            p == n_last.input[2]
            r == n_last.result.value
            k == 0 - p - v.exponent
        IN  /\ n_last.result.ok
            /\ r.exponent >= 0 - p
            /\ r # v =>
                  /\ r.coefficient * Pow10(k) <= v.coefficient
                  /\ v.coefficient < (r.coefficient + 1) * Pow10(k)
            /\ quantize(r, p) = Value(r)

(* ---------------------- TradingViewWebhook.validate_payload ------------ *)
\* A parsed payload is described by what validate_payload looks at: whether
\* a required field is missing, whether its symbol is one of the
\* whitelisted ones, its side and order type, its quantity, its price (0
\* when absent), its confidence in tenths and its age in seconds (with a
\* flag each for presence).  Limits of 0 or FALSE in the configuration mean
\* "not configured".
min_confidence == 6
stale_timeout == 300
clock_skew == 60

Datas ==
    [missing : BOOLEAN,
     listed : BOOLEAN,
     side : {"buy", "hold"},
     order_type : {"market", "limit", "iceberg"},
     quantity : {0, 1, 5},
     price : {0, 10},
     has_confidence : BOOLEAN,
     confidence : {5, 7, 12},
     has_timestamp : BOOLEAN,
     age : {0 - clock_skew - 1, 0 - clock_skew, stale_timeout,
            stale_timeout + 1}]

\* validate_payload(data): "ok", or the rule whose ValidationError it raises
validate_payload(data) ==
    IF data.missing THEN "required"
    ELSE IF vp_config.symbol_whitelist /\ ~data.listed THEN "symbol"
    ELSE IF data.side \notin {"buy", "sell"} THEN "side"
    ELSE IF data.order_type \notin {"market", "limit", "stop_loss",
                                    "take_profit"}
       THEN "order_type"
    ELSE IF data.quantity <= 0 THEN "quantity"
    ELSE IF vp_config.max_quantity # 0
            /\ data.quantity > vp_config.max_quantity
       THEN "quantity"
    ELSE IF data.order_type = "limit" /\ data.price = 0 THEN "limit_price"
    ELSE IF data.has_confidence
            /\ ~(0 <= data.confidence /\ data.confidence <= 10)
       THEN "confidence_range"
    ELSE IF data.has_confidence /\ data.confidence < min_confidence
       THEN "low_confidence"
    ELSE IF data.has_timestamp /\ data.age > stale_timeout THEN "stale"
    ELSE IF data.has_timestamp /\ data.age < 0 - clock_skew THEN "future"
    ELSE IF vp_config.max_order_value # 0 /\ data.price # 0
            /\ data.price * data.quantity > vp_config.max_order_value
       THEN "order_value"
    ELSE "ok"

\* TradingViewWebhook(plugin, secret, config)
VPInit ==
    /\ vp_config \in [symbol_whitelist : BOOLEAN, max_quantity : {0, 2},
                      max_order_value : {0, 20}]
    /\ \E data \in Datas :
          vp_last = [op |-> "received", data |-> data, result |-> ""]
    /\ CBInit
    /\ RLFrozen
    /\ IPFrozen
    /\ PipeFrozen
    /\ WHFrozen
    /\ ALFrozen
    /\ NormFrozen
    /\ PSFrozen

\* validate_payload(data) is called on the payload received
ValidatePayload ==
    /\ vp_last.op = "received"
    /\ vp_last' = [op |-> "validate_payload", data |-> vp_last.data,
                   result |-> validate_payload(vp_last.data)]
    /\ UNCHANGED vp_config
    /\ UNCHANGED vp_outside

VPNext == ValidatePayload

SpecVP == VPInit /\ [][VPNext]_vars

\* the rules in the order the documentation states them
RuleOrder ==
    <<"required", "side", "order_type", "quantity", "limit_price",
      "confidence_range", "low_confidence", "stale", "future", "order_value",
      "symbol">>

\* the payload breaks the rule, taken on its own
Violates(data, rule) ==
    CASE rule = "required" -> data.missing
      [] rule = "side" -> data.side \notin {"buy", "sell"}
      [] rule = "order_type" -> data.order_type = "iceberg"
      [] rule = "quantity" ->
            \/ data.quantity <= 0
            \/ vp_config.max_quantity # 0
                  /\ data.quantity > vp_config.max_quantity
      [] rule = "limit_price" -> data.order_type = "limit" /\ data.price = 0
      [] rule = "confidence_range" ->
            data.has_confidence /\ (data.confidence < 0 \/ data.confidence > 10)
      [] rule = "low_confidence" ->
            data.has_confidence /\ data.confidence < min_confidence
      [] rule = "stale" -> data.has_timestamp /\ data.age > stale_timeout
      [] rule = "future" -> data.has_timestamp /\ data.age < 0 - clock_skew
      [] rule = "order_value" ->
            /\ vp_config.max_order_value # 0
            /\ data.price # 0
            /\ data.price * data.quantity > vp_config.max_order_value
      [] rule = "symbol" -> vp_config.symbol_whitelist /\ ~data.listed

\* C22: validate_payload reports the earliest violated rule in the order
\* required fields, side, order type, quantity, limit price, confidence
\* range, minimum confidence, timestamp age, order value, symbol whitelist.
C22_EarliestRuleReported ==
    vp_last.op = "validate_payload" =>
        IF \E k \in DOMAIN RuleOrder : Violates(vp_last.data, RuleOrder[k])
           THEN \E k \in DOMAIN RuleOrder :
                   /\ vp_last.result = RuleOrder[k]
                   /\ Violates(vp_last.data, RuleOrder[k])
                   /\ \A j \in 1..(k - 1) :
                         ~Violates(vp_last.data, RuleOrder[j])
           ELSE vp_last.result = "ok"

(* -------------------------- TradingViewWebhook ------------------------- *)
\* webhook_secret is "none" (None), "" or the secret "s".  A signature is
\* <<"none">>-like (None), empty, a hex digest, or a string with a non-ASCII
\* character; the digest HMAC-SHA256(key, payload) is modelled as the triple
\* of its arguments, so digests of different arguments differ.
MaxSignatureFailures == 2

Secrets == {"none", "", "s"}
Payloads ==
    {"order_a", "order_b", "not_json", "rejected_order", "not_object",
     "wrong_type"}
Backends == {"success", "failure", "raises", "malformed"}

SigNone == <<"none", "", "">>
SigEmpty == <<"empty", "", "">>
SigNonAscii == <<"non_ascii", "", "">>

\* hmac.new(key, payload, hashlib.sha256).hexdigest()
HMAC(key, payload) == <<"hexdigest", key, payload>>

\* a hex digest with one character changed
Flipped(digest) == <<"flipped", digest[2], digest[3]>>

WHSignatures ==
    {SigNone, SigEmpty, SigNonAscii, Flipped(HMAC("s", "order_a"))}
        \cup {HMAC(k, p) : k \in {"s", "t"}, p \in {"order_a", "order_b"}}

\* a market order that passes every rule; quantities count units of
\* 10^-MaxPrecision
PlainOrder ==
    [missing |-> FALSE, listed |-> TRUE, side |-> "buy",
     order_type |-> "market", quantity |-> 100, price |-> 0,
     has_confidence |-> FALSE, confidence |-> 10, has_timestamp |-> FALSE,
     age |-> 0]

\* json.loads(payload): order_a is a BTC/USDT order, order_b a BTCUSDT order
\* for a quantity with more decimals, rejected_order has confidence 0.5,
\* wrong_type has a number as its side, not_object is a JSON array
json_loads(payload) ==
    CASE payload = "order_a" ->
            [kind |-> "object", typed |-> TRUE,
             symbol |-> <<"B","T","C","/","U","S","D","T">>, data |-> PlainOrder]
      [] payload = "order_b" ->
            [kind |-> "object", typed |-> TRUE,
             symbol |-> <<"B","T","C","U","S","D","T">>,
             data |-> [PlainOrder EXCEPT !.quantity = 105]]
      [] payload = "rejected_order" ->
            [kind |-> "object", typed |-> TRUE,
             symbol |-> <<"B","T","C","/","U","S","D","T">>,
             data |-> [PlainOrder EXCEPT !.has_confidence = TRUE,
                                         !.confidence = 5]]
      [] payload = "wrong_type" ->
            [kind |-> "object", typed |-> FALSE,
             symbol |-> <<"B","T","C","/","U","S","D","T">>, data |-> PlainOrder]
      [] payload = "not_object" ->
            [kind |-> "array", typed |-> FALSE, symbol |-> <<>>,
             data |-> PlainOrder]
      [] OTHER ->
            [kind |-> "JSONDecodeError", typed |-> FALSE, symbol |-> <<>>,
             data |-> PlainOrder]

\* json.loads(payload) succeeds
IsJson(payload) == json_loads(payload).kind # "JSONDecodeError"

\* validate_payload(data) raises no ValidationError
Validates(payload) == validate_payload(json_loads(payload).data) = "ok"

\* verify_signature without the comparison against the expected digest
verify_signature_unchecked(payload, signature) ==
    IF webhook_secret \in {"none", ""}
       THEN IF require_signature
               THEN [result |-> "SignatureError", inc |-> 1]
               ELSE [result |-> "True", inc |-> 0]
    ELSE IF signature \in {SigNone, SigEmpty}
       THEN [result |-> "SignatureError", inc |-> 1]
    ELSE [result |-> "True", inc |-> 0]

\* verify_signature(payload, signature): what it returns or raises, and by
\* how much it increments webhook_signature_failures
verify_signature(payload, signature) ==
    IF webhook_secret \in {"none", ""}
       THEN IF require_signature
               THEN [result |-> "SignatureError", inc |-> 1]
               ELSE [result |-> "True", inc |-> 0]
    ELSE IF signature \in {SigNone, SigEmpty}
       THEN [result |-> "SignatureError", inc |-> 1]
    ELSE IF signature = SigNonAscii
       \* hmac.compare_digest rejects a str with non-ASCII characters
       THEN [result |-> "TypeError", inc |-> 0]
    ELSE IF signature # HMAC(webhook_secret, payload)
       THEN [result |-> "SignatureError", inc |-> 1]
    ELSE [result |-> "True", inc |-> 0]

WHOp(name, payload, signature, outcome, forwarded) ==
    [op |-> name, payload |-> payload, signature |-> signature,
     outcome |-> outcome, counted |-> signature_failures,
     forwarded |-> forwarded, backend |-> "", calls |-> 0,
     validation |-> "", success |-> FALSE, order |-> <<>>]

\* a backend call that is repeated once when it does not succeed
execute_order_retried(backend) == IF backend = "success" THEN 1 ELSE 2

\* how often process_webhook awaits plugin.execute_order(order)
execute_order_calls(backend) == 1

\* the try block of process_webhook up to its return or to the exception
\* that leaves it: the exception, the signature failures counted, what
\* validate_payload said, the calls of the backend and the order built
try_block(payload, signature, backend) ==
    LET verdict == IF require_signature
                      THEN verify_signature(payload, signature)
                      ELSE [result |-> "True", inc |-> 0]
        parsed == json_loads(payload)
        validation == validate_payload(parsed.data)
        none == [exception |-> "", returned |-> "", inc |-> verdict.inc,
                 validation |-> "", calls |-> 0, order |-> <<>>]
        sent == [none EXCEPT !.validation = "ok",
                             !.calls = execute_order_calls(backend),
                             !.order = [symbol |-> parsed.symbol,
                                        quantity |-> parsed.data.quantity]]
    IN  IF verdict.result # "True"
           THEN [none EXCEPT !.exception = verdict.result]
        ELSE IF ~IsJson(payload)
           THEN [none EXCEPT !.exception = "ValidationError"]
        ELSE IF parsed.kind # "object" \/ ~parsed.typed
           \* data.get or data['side'].lower() on a value without it
           THEN [none EXCEPT !.exception = "AttributeError"]
        ELSE IF validation # "ok"
           THEN [none EXCEPT !.exception = "ValidationError",
                             !.validation = validation]
        ELSE IF backend = "raises"
           THEN [sent EXCEPT !.exception = "Exception"]
        ELSE IF backend = "malformed"
           \* result['order_id'] of a result without that key
           THEN [sent EXCEPT !.exception = "KeyError"]
        ELSE IF backend = "success"
           THEN [sent EXCEPT !.returned = "Order executed successfully"]
        ELSE [sent EXCEPT !.returned = "Order execution failed"]

\* the except clauses without the final "except Exception"
except_clauses_typed_only(exception) ==
    CASE exception = "SignatureError" -> "Signature verification failed"
      [] exception = "ValidationError" -> "Validation failed"
      [] OTHER -> "propagated"

\* the except clauses of process_webhook: the message of the result
except_clauses(exception) ==
    CASE exception = "SignatureError" -> "Signature verification failed"
      [] exception = "ValidationError" -> "Validation failed"
      [] OTHER -> "Internal error"

\* TradingViewWebhook(plugin, webhook_secret, config)
WHInit ==
    /\ webhook_secret \in Secrets
    /\ \E config \in {"absent", "True", "False"} :
          require_signature = IF config = "absent"
                                 THEN webhook_secret # "none"
                                 ELSE config = "True"
    /\ signature_failures = 0
    /\ wh_last = WHOp("init", "", SigNone, "", FALSE)
    /\ CBInit
    /\ RLFrozen
    /\ IPFrozen
    /\ PipeFrozen
    /\ MoreFrozen

\* a caller invokes verify_signature(payload, signature)
VerifySignature(payload, signature) ==
    /\ signature_failures < MaxSignatureFailures
    /\ LET verdict == verify_signature(payload, signature)
       IN  /\ signature_failures' = signature_failures + verdict.inc
           /\ wh_last' = WHOp("verify_signature", payload, signature,
                              verdict.result, FALSE)
    /\ UNCHANGED <<webhook_secret, require_signature>>
    /\ UNCHANGED wh_outside

\* process_webhook(payload, signature); backend is what the plugin does
ProcessWebhook(payload, signature, backend) ==
    /\ signature_failures < MaxSignatureFailures
    /\ LET try == try_block(payload, signature, backend)
           message == IF try.exception = "" THEN try.returned
                      ELSE except_clauses(try.exception)
       IN  /\ signature_failures' = signature_failures + try.inc
           /\ wh_last' =
                 [WHOp("process_webhook", payload, signature, message,
                       try.calls > 0)
                    EXCEPT !.backend = backend,
                           !.calls = try.calls,
                           !.validation = try.validation,
                           !.success = (message = "Order executed successfully"),
                           !.order = try.order]
    /\ UNCHANGED <<webhook_secret, require_signature>>
    /\ UNCHANGED wh_outside

WHNext ==
    \/ \E p \in Payloads, sg \in WHSignatures : VerifySignature(p, sg)
    \/ \E p \in Payloads, sg \in WHSignatures, b \in Backends :
          ProcessWebhook(p, sg, b)

SpecWH == WHInit /\ [][WHNext]_vars

\* the supplied signature is the digest of the payload under the secret
SignatureMatches ==
    /\ webhook_secret = "s"
    /\ wh_last.signature = HMAC(webhook_secret, wh_last.payload)

\* C19: verify_signature succeeds exactly when no secret is configured and
\* no signature is required, or the signature equals
\* HMAC-SHA256(secret, payload); otherwise it raises SignatureError and
\* increments the signature-failure counter exactly once.
C19_VerifySignature ==
    wh_last.op = "verify_signature" =>
        IF \/ webhook_secret \in {"none", ""} /\ ~require_signature
           \/ SignatureMatches
           THEN /\ wh_last.outcome = "True"
                /\ signature_failures = wh_last.counted
           ELSE /\ wh_last.outcome = "SignatureError"
                /\ signature_failures = wh_last.counted + 1

C21_ForwardedOnceAfterValidation ==
    wh_last.op = "process_webhook" =>
        /\ wh_last.calls <= 1
        /\ wh_last.calls > 0 =>
              /\ json_loads(wh_last.payload).kind = "object"
              /\ wh_last.validation = "ok"

\* the backend failed on a valid order and was not called again
C21_Witness ==
    /\ wh_last.op = "process_webhook"
    /\ wh_last.payload = "order_a"
    /\ wh_last.backend = "failure"
    /\ wh_last.calls = 1
    /\ wh_last.outcome = "Order execution failed"

\* C25: process_webhook never lets an error reach its caller: it returns a
\* result with a success flag, which is true only when the backend reported
\* success for the forwarded order.
C25_AlwaysStructuredResult ==
    wh_last.op = "process_webhook" =>
        /\ wh_last.outcome \in
              {"Signature verification failed", "Validation failed",
               "Internal error", "Order execution failed",
               "Order executed successfully"}
        /\ wh_last.success \in BOOLEAN
        /\ wh_last.success =>
              wh_last.backend = "success" /\ wh_last.forwarded

\* an exception of the backend and a payload that is no JSON object both
\* end as an "Internal error" result
C25_Witness ==
    /\ wh_last.op = "process_webhook"
    /\ wh_last.outcome = "Internal error"
    /\ ~wh_last.success
    /\ \/ wh_last.backend = "raises" /\ wh_last.forwarded
       \/ wh_last.payload = "not_object"

\* C26: every order handed to the execution backend has its symbol in
\* BASE/QUOTE form and its quantity rounded down to the configured
\* precision.
C26_ForwardedOrderNormalized ==
    (wh_last.op = "process_webhook" /\ wh_last.forwarded) =>
        /\ normalize_symbol(wh_last.order.symbol)
              = Value(wh_last.order.symbol)
        /\ round_to_precision(wh_last.order.quantity,
                              n_config.quantity_precision)
              = Value(wh_last.order.quantity)

(* --------------------------- webhook endpoint -------------------------- *)
\* POST /webhook/tradingview of the three applications.  A request carries
\* its client address, its X-Webhook-Signature header, its body, and the
\* outcome of the exchange call it would trigger.
Apps == {"app", "app_ccxt", "app_ccxt_simple"}
PipeClients == {"trusted", "stranger"}
Signatures == {"valid", "mismatch", "non_ascii"}
Bodies ==
    {"valid", "malformed", "low_confidence", "stale", "future", "oldest",
     "farthest"}

\* the default of MIN_CONFIDENCE
MIN_CONFIDENCE == min_confidence

\* now - timestamp of the signal in the body, in seconds
Age(body) ==
    CASE body = "stale" -> stale_timeout + 1
      [] body = "oldest" -> stale_timeout
      [] body = "future" -> 0 - (clock_skew + 1)
      [] body = "farthest" -> 0 - clock_skew
      [] OTHER -> 0

\* the signal parsed from a well-formed body
Signal(body) ==
    [PlainOrder EXCEPT !.has_confidence = TRUE,
                       !.confidence = IF body = "low_confidence"
                                         THEN MIN_CONFIDENCE - 1
                                         ELSE MIN_CONFIDENCE + 1,
                       !.has_timestamp = TRUE,
                       !.age = Age(body)]

\* module-level configuration of the endpoint
RATE_LIMIT_REQUESTS == max_requests
RATE_LIMIT_WINDOW == window_seconds
CIRCUIT_BREAKER_THRESHOLD == failure_threshold
CIRCUIT_BREAKER_TIMEOUT == timeout_seconds

\* ip_whitelist.is_allowed(client_ip) for a whitelist that lists the
\* trusted client only
Whitelisted(client) == client = "trusted"

RECURSIVE Expire(_, _)
\* RateLimiter.is_allowed: while bucket and bucket[0] <= now - window
Expire(bucket, now) ==
    IF bucket # <<>> /\ bucket[1] <= now - RATE_LIMIT_WINDOW
       THEN Expire(Tail(bucket), now)
       ELSE bucket

\* RateLimiter.is_allowed(client_id): the decision and the buckets it leaves
is_allowed(client) ==
    LET bucket == Expire(p_buckets[client], p_now)
    IN  IF Len(bucket) < RATE_LIMIT_REQUESTS
           THEN [allowed |-> TRUE,
                 buckets |-> [p_buckets EXCEPT ![client] = Append(bucket, p_now)]]
           ELSE [allowed |-> FALSE,
                 buckets |-> [p_buckets EXCEPT ![client] = bucket]]

\* CircuitBreaker.can_proceed(): the decision and the breaker it leaves
can_proceed ==
    IF p_breaker.state = OPEN
       THEN IF p_now - p_breaker.last_failure_time >= CIRCUIT_BREAKER_TIMEOUT
               THEN [proceed |-> TRUE,
                     breaker |-> [p_breaker EXCEPT !.state = HALF_OPEN]]
               ELSE [proceed |-> FALSE, breaker |-> p_breaker]
       ELSE [proceed |-> TRUE, breaker |-> p_breaker]

\* circuit_breaker.state == 'OPEN' (app_ccxt.py): a read of the state
state_is_open == [proceed |-> p_breaker.state # OPEN, breaker |-> p_breaker]

\* CircuitBreaker.record_failure()
record_failure(breaker) ==
    [state |-> IF breaker.failures + 1 >= CIRCUIT_BREAKER_THRESHOLD
                  THEN OPEN ELSE breaker.state,
     failures |-> breaker.failures + 1,
     last_failure_time |-> p_now]

\* CircuitBreaker.record_success()
record_success(breaker) ==
    IF breaker.state = HALF_OPEN
       THEN [breaker EXCEPT !.state = CLOSED, !.failures = 0]
       ELSE breaker

\* what a handler leaves behind: the gates it ran, in order, the HTTP
\* status of the response, and the limiter and breaker state
Handled(client, body, gates, status, buckets, breaker) ==
    /\ p_buckets' = buckets
    /\ p_breaker' = breaker
    /\ p_last' = [client |-> client, body |-> body, gates |-> gates,
                  status |-> status,
                  old_buckets |-> p_buckets, old_breaker |-> p_breaker]
    /\ UNCHANGED <<p_app, p_now>>
    /\ UNCHANGED p_outside

\* app_ccxt_simple.py: tradingview_webhook
Handle_app_ccxt_simple(client, signature, body, order_placed) ==
    /\ p_app = "app_ccxt_simple"
    /\ p_breaker.failures <= MaxFailureCount
    /\ LET rate == is_allowed(client)
           gate == can_proceed
       IN  IF ~Whitelisted(client)
              THEN Handled(client, body, <<"ip">>, 403, p_buckets, p_breaker)
           ELSE IF ~rate.allowed
              THEN Handled(client, body, <<"ip", "rate">>, 429, rate.buckets,
                           p_breaker)
           ELSE IF ~gate.proceed
              THEN Handled(client, body, <<"ip", "rate", "breaker">>, 503,
                           rate.buckets, gate.breaker)
           ELSE IF signature = "non_ascii"
              \* hmac.compare_digest raises TypeError: except Exception
              THEN Handled(client, body, <<"ip", "rate", "breaker", "signature">>,
                           500, rate.buckets, record_failure(gate.breaker))
           ELSE IF signature = "mismatch"
              THEN Handled(client, body, <<"ip", "rate", "breaker", "signature">>,
                           401, rate.buckets, record_failure(gate.breaker))
           ELSE IF body = "malformed"
              \* parse_raw raises ValidationError: except Exception
              THEN Handled(client, body,
                           <<"ip", "rate", "breaker", "signature", "payload">>,
                           500, rate.buckets, record_failure(gate.breaker))
           ELSE IF Signal(body).confidence < MIN_CONFIDENCE
              \* "ignored", reason "confidence below threshold"
              THEN Handled(client, body,
                           <<"ip", "rate", "breaker", "signature", "payload">>,
                           200, rate.buckets, record_success(gate.breaker))
           ELSE IF Abs(Signal(body).age) > 300
              \* "ignored", reason "stale signal"
              THEN Handled(client, body,
                           <<"ip", "rate", "breaker", "signature", "payload">>,
                           200, rate.buckets, record_success(gate.breaker))
           ELSE IF ~order_placed
              THEN Handled(client, body,
                           <<"ip", "rate", "breaker", "signature", "payload",
                             "execute">>,
                           500, rate.buckets, record_failure(gate.breaker))
           ELSE Handled(client, body,
                        <<"ip", "rate", "breaker", "signature", "payload",
                          "execute">>,
                        200, rate.buckets, record_success(gate.breaker))

\* app.py: tradingview_webhook (the order is simulated, never placed)
Handle_app(client, signature, body) ==
    /\ p_app = "app"
    /\ p_breaker.failures <= MaxFailureCount
    /\ LET rate == is_allowed(client)
           gate == can_proceed
       IN  IF ~rate.allowed
              THEN Handled(client, body, <<"rate">>, 429, rate.buckets, p_breaker)
           ELSE IF ~Whitelisted(client)
              THEN Handled(client, body, <<"rate", "ip">>, 403, rate.buckets,
                           p_breaker)
           ELSE IF ~gate.proceed
              THEN Handled(client, body, <<"rate", "ip", "breaker">>, 503,
                           rate.buckets, gate.breaker)
           ELSE IF signature # "valid"
              THEN Handled(client, body, <<"rate", "ip", "breaker", "signature">>,
                           400, rate.buckets, record_failure(gate.breaker))
           ELSE IF body = "malformed" \/ validate_payload(Signal(body)) # "ok"
              THEN Handled(client, body,
                           <<"rate", "ip", "breaker", "signature", "payload">>,
                           400, rate.buckets, record_failure(gate.breaker))
           ELSE Handled(client, body,
                        <<"rate", "ip", "breaker", "signature", "payload",
                          "execute">>,
                        200, rate.buckets, record_success(gate.breaker))

\* app_ccxt.py: tradingview_webhook
Handle_app_ccxt(client, signature, body, order_placed) ==
    /\ p_app = "app_ccxt"
    /\ p_breaker.failures <= MaxFailureCount
    /\ LET rate == is_allowed(client)
           gate == state_is_open
       IN  IF ~Whitelisted(client)
              THEN Handled(client, body, <<"ip">>, 403, p_buckets, p_breaker)
           ELSE IF ~rate.allowed
              THEN Handled(client, body, <<"ip", "rate">>, 429, rate.buckets,
                           p_breaker)
           ELSE IF ~gate.proceed
              THEN Handled(client, body, <<"ip", "rate", "breaker">>, 503,
                           rate.buckets, gate.breaker)
           ELSE IF signature # "valid"
              THEN Handled(client, body, <<"ip", "rate", "breaker", "signature">>,
                           401, rate.buckets, gate.breaker)
           ELSE IF \/ body = "malformed"
                   \/ validate_payload(Signal(body)) \notin {"ok", "low_confidence"}
              THEN Handled(client, body,
                           <<"ip", "rate", "breaker", "signature", "payload">>,
                           400, rate.buckets, gate.breaker)
           ELSE IF Signal(body).confidence < MIN_CONFIDENCE
              THEN Handled(client, body,
                           <<"ip", "rate", "breaker", "signature", "payload">>,
                           200, rate.buckets, gate.breaker)
           ELSE IF ~order_placed
              THEN Handled(client, body,
                           <<"ip", "rate", "breaker", "signature", "payload",
                             "execute">>,
                           500, rate.buckets, record_failure(gate.breaker))
           ELSE Handled(client, body,
                        <<"ip", "rate", "breaker", "signature", "payload",
                          "execute">>,
                        200, rate.buckets, record_success(gate.breaker))

\* time passes between requests
PipeTick ==
    /\ p_now < MaxNow
    /\ p_now' = p_now + 1
    /\ UNCHANGED <<p_app, p_buckets, p_breaker, p_last>>
    /\ UNCHANGED p_outside

PipeInit ==
    /\ p_app \in Apps
    /\ PipeStart
    /\ CBInit
    /\ RLFrozen
    /\ IPFrozen
    /\ WHFrozen
    /\ MoreFrozen

PipeNext ==
    \/ \E c \in PipeClients, sg \in Signatures, b \in Bodies, o \in BOOLEAN :
          Handle_app_ccxt_simple(c, sg, b, o)
    \/ \E c \in PipeClients, sg \in Signatures, b \in Bodies :
          Handle_app(c, sg, b)
    \/ \E c \in PipeClients, sg \in Signatures, b \in Bodies, o \in BOOLEAN :
          Handle_app_ccxt(c, sg, b, o)
    \/ PipeTick

SpecPipe == PipeInit /\ [][PipeNext]_vars

\* the gates in the order the endpoint documents
GateOrder == <<"ip", "rate", "breaker", "signature", "payload">>

\* the gates of a request, without the execution step that follows them
GatesRun == SelectSeq(p_last.gates, LAMBDA g : g # "execute")

\* the gate that turned the request away, "" when none did
RejectedBy ==
    IF p_last.status # 200 /\ p_last.gates # <<>>
          /\ p_last.gates[Len(p_last.gates)] # "execute"
       THEN p_last.gates[Len(p_last.gates)]
       ELSE ""

\* C17: the gates run in the order IP whitelist, rate limiter, circuit
\* breaker, signature, payload and stop at the first that fails; a request
\* the whitelist rejects consumes no rate-limit capacity, and a request the
\* rate limiter rejects leaves the circuit breaker unread and unchanged.
C17_GatesInOrder ==
    p_last.gates # <<>> =>
        /\ GatesRun = SubSeq(GateOrder, 1, Len(GatesRun))
        /\ RejectedBy = "ip" => p_buckets = p_last.old_buckets
        /\ RejectedBy = "rate" => p_breaker = p_last.old_breaker

\* C18: a rejected request carries the status of the gate that rejected it:
\* 403 whitelist, 429 rate limiter, 503 open circuit, 401 signature,
\* 400 payload validation.
C18_StatusOfRejectingGate ==
    (p_app = "app_ccxt_simple" /\ RejectedBy # "") =>
        p_last.status = (CASE RejectedBy = "ip" -> 403
                           [] RejectedBy = "rate" -> 429
                           [] RejectedBy = "breaker" -> 503
                           [] RejectedBy = "signature" -> 401
                           [] RejectedBy = "payload" -> 400)

\* the request reached the named step of the handler
Reached(gate) == \E i \in DOMAIN p_last.gates : p_last.gates[i] = gate

\* C23: a signal whose confidence is below the minimum is rejected for the
\* reason "low confidence", which no other rule of the validator gives, and
\* never reaches execution; every handler answers it with a rejection, as
\* process_webhook does.
C23_LowConfidenceRejected ==
    (p_last.body = "low_confidence" /\ Reached("payload")) =>
        /\ validate_payload(Signal(p_last.body)) = "low_confidence"
        /\ ~Reached("execute")
        /\ RejectedBy = "payload"

\* C24: a well-formed signal of sufficient confidence is executed exactly
\* when -60 s <= now - timestamp <= staleTimeout; an older or a later one
\* never reaches execution.
C24_TimestampWindow ==
    (/\ Reached("payload")
     /\ p_last.body \in {"valid", "stale", "oldest", "future", "farthest"}) =>
        (Reached("execute") <=>
            /\ 0 - clock_skew <= Age(p_last.body)
            /\ Age(p_last.body) <= stale_timeout)

\* C34: a request that is turned away for its signature or its payload
\* never reached the execution backend and leaves the circuit breaker's
\* failure count and state as they were (but for the move from OPEN to
\* HALF_OPEN that the elapsed timeout causes).
C34_RejectedRequestLeavesBreaker ==
    RejectedBy \in {"signature", "payload"} =>
        /\ p_breaker.failures = p_last.old_breaker.failures
        /\ \/ p_breaker.state = p_last.old_breaker.state
           \/ /\ p_last.old_breaker.state = OPEN
              /\ p_breaker.state = HALF_OPEN

(* ----------------------------- AuditLogger ----------------------------- *)
\* capacity of the logger (the default is 10000) and number of log calls
max_entries == 2
MaxLogged == 4
NumIdentifiers == 2
MaxCount == 3

\* an AuditLogEntry: who it is about and when it was created
AuditLogEntry(identifier) ==
    [identifier |-> identifier, timestamp |-> Len(al_logged) + 1]

\* deque.append that evicts nothing: the entries grow past maxlen
deque_append_unbounded(entries, entry) == Append(entries, entry)

\* deque(maxlen=max_entries).append(entry)
deque_append(entries, entry) ==
    IF max_entries = 0 THEN <<>>
    ELSE IF Len(entries) >= max_entries
       THEN Append(Tail(entries), entry)
       ELSE Append(entries, entry)

\* Python's sequence[-count:], for count >= 0
LastSlice(sequence, count) ==
    IF count = 0 \/ count >= Len(sequence)
       THEN sequence
       ELSE SubSeq(sequence, Len(sequence) - count + 1, Len(sequence))

ALInit ==
    /\ ALFrozen
    /\ CBInit
    /\ RLFrozen
    /\ IPFrozen
    /\ PipeFrozen
    /\ WHFrozen
    /\ NormFrozen
    /\ VPFrozen
    /\ PSFrozen

\* log(action, identifier, success)
Log(identifier) ==
    /\ Len(al_logged) < MaxLogged
    /\ al_entries' = deque_append(al_entries, AuditLogEntry(identifier))
    /\ al_logged' = Append(al_logged, AuditLogEntry(identifier))
    /\ al_last' = [op |-> "log", identifier |-> identifier, count |-> 0,
                   returned |-> <<>>]
    /\ UNCHANGED al_outside

\* get_recent(count)
GetRecent(count) ==
    /\ al_last' = [op |-> "get_recent", identifier |-> 0, count |-> count,
                   returned |-> LastSlice(al_entries, count)]
    /\ UNCHANGED <<al_entries, al_logged>>
    /\ UNCHANGED al_outside

\* get_by_identifier(identifier, count)
GetByIdentifier(identifier, count) ==
    /\ al_last' = [op |-> "get_by_identifier", identifier |-> identifier,
                   count |-> count,
                   returned |-> LastSlice(
                       SelectSeq(al_entries,
                                 LAMBDA e : e.identifier = identifier),
                       count)]
    /\ UNCHANGED <<al_entries, al_logged>>
    /\ UNCHANGED al_outside

ALNext ==
    \/ \E identifier \in 1..NumIdentifiers : Log(identifier)
    \/ \E count \in 0..MaxCount : GetRecent(count)
    \/ \E identifier \in 1..NumIdentifiers, count \in 0..MaxCount :
          GetByIdentifier(identifier, count)

SpecAL == ALInit /\ [][ALNext]_vars

Min(a, b) == IF a <= b THEN a ELSE b

\* the sequence in reverse order
Reversed(sequence) ==
    [k \in 1..Len(sequence) |-> sequence[Len(sequence) - k + 1]]

\* the last count elements, most recent first
MostRecentFirst(sequence, count) ==
    Reversed(SubSeq(sequence, Len(sequence) - Min(count, Len(sequence)) + 1,
                    Len(sequence)))

\* C27: after n log calls the logger retains exactly the last
\* min(n, max_entries) entries logged, unmodified and in the order appended.
C27_RetainsLastEntries ==
    al_entries = SubSeq(al_logged,
                        Len(al_logged) - Min(Len(al_logged), max_entries) + 1,
                        Len(al_logged))

\* more entries were logged than fit, and the oldest ones are gone
C27_Witness ==
    /\ al_last.op = "log"
    /\ Len(al_logged) > max_entries
    /\ Len(al_entries) = max_entries
    /\ al_entries[1] # al_logged[1]

\* C28: get_recent(N) returns the N most recent retained entries, most
\* recent first, and get_by_identifier(id, N) the N most recent retained
\* entries of that identifier, most recent first.
C28_ReadBackMostRecentFirst ==
    /\ al_last.op = "get_recent" =>
          al_last.returned = MostRecentFirst(al_entries, al_last.count)
    /\ al_last.op = "get_by_identifier" =>
          al_last.returned =
              MostRecentFirst(
                  SelectSeq(al_entries,
                            LAMBDA e : e.identifier = al_last.identifier),
                  al_last.count)

\* C38: get_recent(N) and get_by_identifier(id, N) return at most N entries;
\* with N = 0 they return none.
C38_AtMostCountEntries ==
    al_last.op \in {"get_recent", "get_by_identifier"} =>
        Len(al_last.returned) <= al_last.count

(* ---------------------------- PositionSizer ---------------------------- *)
\* Fractions of the capital are whole per cent (0.02 is 2).  A size is an
\* exact quotient num / den with den > 0, counted in hundredths of a unit,
\* so that balance * per cent / price needs no factor 100.
Q(num, den) ==
    IF den < 0 THEN [num |-> 0 - num, den |-> 0 - den]
    ELSE [num |-> num, den |-> den]

QLe(a, b) == a.num * b.den <= b.num * a.den

QMin(a, b) == IF QLe(a, b) THEN a ELSE b

\* the arguments of the calls: fractions in per cent, prices, volatilities
Percentages == {-1, 0, 2, 5, 150}
Prices == {-5, 0, 95, 100}
Volatilities == {-1, 0, 1, 5}

\* calculate_fixed_percentage(percentage, price); percentage is a quotient
calculate_fixed_percentage(percentage, price) ==
    IF ~(percentage.num > 0 /\ percentage.num <= 100 * percentage.den)
       THEN Failure("ValueError")
    ELSE IF price <= 0 THEN Failure("ValueError")
    ELSE LET capped == QMin(percentage, Q(ps_config.max_position_size, 1))
         IN  Value(Q(ps_config.account_balance * capped.num,
                     capped.den * price))

\* risk-based sizing without the cap at the maximum position size
calculate_risk_based_uncapped(entry_price, stop_loss, risk_percentage) ==
    IF entry_price <= 0 \/ stop_loss <= 0 THEN Failure("ValidationError")
    ELSE IF Abs(entry_price - stop_loss) = 0 THEN Failure("ValidationError")
    ELSE LET given == IF risk_percentage = <<>>
                         THEN ps_config.max_risk_per_trade
                         ELSE risk_percentage[1]
             risk == IF given <= ps_config.max_risk_per_trade
                        THEN given ELSE ps_config.max_risk_per_trade
         IN  Value(Q(ps_config.account_balance * risk,
                     Abs(entry_price - stop_loss)))

\* calculate_risk_based(entry_price, stop_loss, risk_percentage); the empty
\* tuple is the default None of risk_percentage
calculate_risk_based(entry_price, stop_loss, risk_percentage) ==
    IF entry_price <= 0 \/ stop_loss <= 0 THEN Failure("ValidationError")
    ELSE IF Abs(entry_price - stop_loss) = 0 THEN Failure("ValidationError")
    ELSE LET given == IF risk_percentage = <<>>
                         THEN ps_config.max_risk_per_trade
                         ELSE risk_percentage[1]
             risk == IF given <= ps_config.max_risk_per_trade
                        THEN given ELSE ps_config.max_risk_per_trade
             position_size == Q(ps_config.account_balance * risk,
                                Abs(entry_price - stop_loss))
             max_size == calculate_fixed_percentage(
                             Q(ps_config.max_position_size, 1), entry_price)
         IN  IF ~max_size.ok THEN max_size
             ELSE Value(QMin(position_size, max_size.value))

\* calculate_volatility_adjusted(price, volatility, base_percentage)
calculate_volatility_adjusted(price, volatility, base_percentage) ==
    IF price <= 0 THEN Failure("ValueError")
    ELSE IF volatility < 0 THEN Failure("ValueError")
    ELSE LET \* 0.01 / (volatility / price), capped at 1
             adjustment_factor ==
                 IF volatility > 0
                    THEN QMin(Q(price, 100 * volatility), Q(1, 1))
                    ELSE Q(1, 1)
         IN  calculate_fixed_percentage(
                 Q(base_percentage * adjustment_factor.num,
                   adjustment_factor.den),
                 price)

\* PositionSizer(account_balance, max_risk_per_trade, max_position_size)
PositionSizer(account_balance, max_risk_per_trade, max_position_size) ==
    [constructed |->
        /\ account_balance > 0
        /\ max_risk_per_trade > 0 /\ max_risk_per_trade <= 100
        /\ max_position_size > 0 /\ max_position_size <= 100,
     account_balance |-> account_balance,
     max_risk_per_trade |-> max_risk_per_trade,
     max_position_size |-> max_position_size]

\* the defaults of app_ccxt_simple.py: 2% risk per trade, 1000 USD ceiling
RISK_PER_TRADE == 2
MAX_POSITION_SIZE_USD == 1000

\* calculate_position_size(signal) of app_ccxt_simple.py, in USD, for the
\* default balance of 10000; 0 stands for a price that is absent or zero
calculate_position_size(signal) ==
    LET risk_amount == Q(100 * RISK_PER_TRADE, 1)
        position_size_usd ==
            IF signal.price # 0 /\ signal.stop_loss # 0
               THEN \* stop_distance = abs(price - stop_loss) / price
                    IF Q(Abs(signal.price - signal.stop_loss),
                         signal.price).num > 0
                       THEN Q(risk_amount.num * signal.price,
                              Abs(signal.price - signal.stop_loss))
                       ELSE Q(0, 1)
               ELSE Q(500, 1)
    IN  QMin(position_size_usd, Q(MAX_POSITION_SIZE_USD, 1))

PSCalled(name, input, outcome, forwarded) ==
    [op |-> name, input |-> input, result |-> outcome,
     forwarded |-> forwarded]

PSInit ==
    /\ \E account_balance \in {0, 500, 10000},
          max_risk_per_trade \in {0, 1, 2, 101},
          max_position_size \in {0, 10, 40, 101} :
          ps_config = PositionSizer(account_balance, max_risk_per_trade,
                                    max_position_size)
    /\ PSStart
    /\ CBInit
    /\ RLFrozen
    /\ IPFrozen
    /\ PipeFrozen
    /\ WHFrozen
    /\ ALFrozen
    /\ NormFrozen
    /\ VPFrozen

CalculateFixedPercentage(percentage, price) ==
    /\ ps_config.constructed
    /\ ps_last' = PSCalled("calculate_fixed_percentage",
                           <<percentage, price>>,
                           calculate_fixed_percentage(Q(percentage, 1), price),
                           FALSE)
    /\ UNCHANGED ps_config
    /\ UNCHANGED ps_outside

CalculateRiskBased(entry_price, stop_loss, risk_percentage) ==
    /\ ps_config.constructed
    /\ ps_last' = PSCalled("calculate_risk_based",
                           <<entry_price, stop_loss, risk_percentage>>,
                           calculate_risk_based(entry_price, stop_loss,
                                                risk_percentage),
                           FALSE)
    /\ UNCHANGED ps_config
    /\ UNCHANGED ps_outside

CalculateVolatilityAdjusted(price, volatility, base_percentage) ==
    /\ ps_config.constructed
    /\ ps_last' = PSCalled("calculate_volatility_adjusted",
                           <<price, volatility, base_percentage>>,
                           calculate_volatility_adjusted(price, volatility,
                                                         base_percentage),
                           FALSE)
    /\ UNCHANGED ps_config
    /\ UNCHANGED ps_outside

\* tradingview_webhook of app_ccxt_simple.py from the sizing on: the size is
\* computed and, with exchange credentials, the order is placed
CalculatePositionSize(signal, api_key) ==
    /\ ps_last' = PSCalled("calculate_position_size", signal,
                           Value(calculate_position_size(signal)), api_key)
    /\ UNCHANGED ps_config
    /\ UNCHANGED ps_outside

PSNext ==
    \/ \E percentage \in Percentages, price \in Prices :
          CalculateFixedPercentage(percentage, price)
    \/ \E entry_price \in Prices, stop_loss \in Prices,
          risk_percentage \in {<<>>} \cup {<<p>> : p \in Percentages} :
          CalculateRiskBased(entry_price, stop_loss, risk_percentage)
    \/ \E price \in Prices, volatility \in Volatilities,
          base_percentage \in Percentages :
          CalculateVolatilityAdjusted(price, volatility, base_percentage)
    \/ \E signal \in [price : Prices, stop_loss : Prices],
          api_key \in BOOLEAN :
          CalculatePositionSize(signal, api_key)

SpecPS == PSInit /\ [][PSNext]_vars

\* the risk fraction that calculate_risk_based applies
AppliedRisk ==
    LET risk_percentage == ps_last.input[3]
        given == IF risk_percentage = <<>> THEN ps_config.max_risk_per_trade
                 ELSE risk_percentage[1]
    IN  IF given <= ps_config.max_risk_per_trade
           THEN given ELSE ps_config.max_risk_per_trade

\* C32: calculate_risk_based returns the smaller of
\* min(riskPct, maxRiskPerTrade) * balance / |entry - stop| and
\* maxPositionFraction * balance / entry; balance 10000, riskPct 0.02,
\* entry 100 and stop 95 give 40 units when neither cap binds; the amount at
\* risk never exceeds maxRiskPerTrade * balance and the position value never
\* exceeds maxPositionFraction * balance.
C32_RiskBasedSize ==
    (ps_last.op = "calculate_risk_based" /\ ps_last.result.ok) =>
        LET entry_price == ps_last.input[1]
            distance == Abs(ps_last.input[1] - ps_last.input[2])
            size == ps_last.result.value
            by_risk == Q(AppliedRisk * ps_config.account_balance, distance)
            by_position == Q(ps_config.max_position_size
                                * ps_config.account_balance, entry_price)
            expected == QMin(by_risk, by_position)
        IN  /\ QLe(size, expected) /\ QLe(expected, size)
            /\ (/\ ps_config.account_balance = 10000
                /\ ps_last.input = <<100, 95, <<2>>>>
                /\ ps_config.max_risk_per_trade >= 2
                /\ QLe(by_risk, by_position)) =>
                  size.num = 4000 * size.den
            /\ size.num * distance
                  <= ps_config.max_risk_per_trade
                        * ps_config.account_balance * size.den
            /\ size.num * entry_price
                  <= ps_config.max_position_size
                        * ps_config.account_balance * size.den

\* the documented example, with a sizer whose caps do not bind
C32_Witness ==
    /\ ps_last.op = "calculate_risk_based"
    /\ ps_last.result.ok
    /\ ps_config.account_balance = 10000
    /\ ps_config.max_risk_per_trade = 2
    /\ ps_config.max_position_size = 40
    /\ ps_last.input = <<100, 95, <<2>>>>
    /\ ps_last.result.value.num = 4000 * ps_last.result.value.den

\* C33: sizing fails when the entry price equals the stop loss or the price
\* is not positive, and then no order is forwarded; a PositionSizer exists
\* only with a positive balance and fractions in (0, 1].
C33_SizingRejectsDegenerateInput ==
    /\ ps_config.constructed =>
          /\ ps_config.account_balance > 0
          /\ ps_config.max_risk_per_trade \in 1..100
          /\ ps_config.max_position_size \in 1..100
    /\ ps_last.op = "calculate_risk_based" =>
          ((ps_last.input[1] = ps_last.input[2] \/ ps_last.input[1] <= 0) =>
              ~ps_last.result.ok)
    /\ ps_last.op = "calculate_fixed_percentage" =>
          (ps_last.input[2] <= 0 => ~ps_last.result.ok)
    /\ ps_last.op = "calculate_volatility_adjusted" =>
          (ps_last.input[1] <= 0 => ~ps_last.result.ok)
    /\ ps_last.op = "calculate_position_size" =>
          ((\/ ps_last.input.price < 0
            \/ ps_last.input.price > 0
                  /\ ps_last.input.price = ps_last.input.stop_loss) =>
              ~ps_last.result.ok /\ ~ps_last.forwarded)

\* C39: every size that a strategy of the PositionSizer returns is strictly
\* positive.
C39_SizesStrictlyPositive ==
    (/\ ps_last.op \in {"calculate_fixed_percentage", "calculate_risk_based",
                        "calculate_volatility_adjusted"}
     /\ ps_last.result.ok) =>
        ps_last.result.value.num > 0

====
